---- MODULE Spec2Model ----
(***************************************************************************)
(* Model of the accessibility-tools browser extension: the popup tools'    *)
(* process() handlers, the floating toolbar manager with its inline tool   *)
(* classes (selection tools, SSE chat tools), as state machines.           *)
(*                                                                         *)
(* Strings the code builds are sequences of pieces: `Error: ${m}` is       *)
(* <<"Error: ", m>>.  JavaScript null is the string "null" for references  *)
(* and 0 for instance indices.                                             *)
(***************************************************************************)
EXTENDS Integers, Sequences, FiniteSets, TLC

VARIABLES
  \* ---- popup (shared.js / js/tools/*.js) ----
  popupTool,      \* the popup tool class under observation
  popupHasResult, \* whether document.getElementById(`${toolId}-result`) exists
  popup,          \* its button, result element and the position of process()
  popupHist,      \* history: accepted clicks, requests issued, last settled run
  \* ---- floating toolbar manager (content-script.js) ----
  isExpanded,
  currentTool,
  textSimplificationState,  \* index into selInsts, 0 = null
  aiAltTextState,           \* index into selInsts, 0 = null
  panelOwner,               \* <<class, index>> of the instance rendered in .tool-panel
  \* ---- inline selection tools (AIAltTextTool, TextSimplificationTool) ----
  selInsts,       \* every instance created so far, closed ones included
  page,           \* the host page's text elements
  \* ---- inline chat tools ----
  chatInsts,      \* every SpeechToInstructionsTool / WebsiteSearchTool instance
  \* ---- what the chat tools write to: the tool panel and the host page ----
  speech,         \* #chat-messages of the tool panel, when it holds the speech tool
  search,         \* #search-chat-messages and #search-status, when it holds the search tool
  chatHist,       \* the host page's button, the clicks made on it, and the events
                  \* that have come to the chat tools since the initial state
  \* ---- the host page's document, for the functions that search it ----
  doc,            \* its elements, in document order
  ret             \* the last call of handleButtonAction / scanWebpageElements on
                  \* it: the arguments, and what the call did and returned

popupVars == <<popupTool, popupHasResult, popup, popupHist>>
mgrVars   == <<isExpanded, currentTool, textSimplificationState, aiAltTextState, panelOwner>>
selVars   == <<selInsts, page>>
sseVars   == <<chatInsts>>
msgVars   == <<speech, search, chatHist>>
docVars   == <<doc, ret>>
vars      == <<popupVars, mgrVars, selVars, sseVars, msgVars, docVars>>

Null == "null"

\* ---------------------------------------------------------------------------
\* Bounds of the model
\* ---------------------------------------------------------------------------
MaxClicks == 2      \* accepted clicks on the popup's button
MaxGenerate == 2    \* requests in flight when the alt-text tool is studied alone
MaxInflight == 1    \* requests in flight when both selection tools are in play
MaxEvents == 3      \* what the chat tools get from outside: openings, clicks on their
                    \* buttons, texts, connection errors, messages, PCM chunks,
                    \* settled POSTs
MaxSends == 2       \* audio POSTs an instance has in flight
MaxDoc == 2         \* elements of the document handleButtonAction searches
MaxExtra == 2       \* elements of the document scanWebpageElements scans, beyond a
                    \* run of buttons

\* ===========================================================================
\* POPUP TOOLS: process()
\* ===========================================================================
PopupTools == {"ai_alt_text", "speech_to_instructions", "text_simplification", "your_tool_name"}

\* The value getFormData() reads from the tool's main input: empty, blank, filled.
FormInputs == {"", " ", "x"}

Trim(s) == IF s = " " THEN "" ELSE s

\* JavaScript truthiness of the values the model uses (a JSON true is "true").
Truthy(v) == v \notin {"false", "absent", "", Null}

\* The input validation at the head of the try block; "" = passes.
ValidationError(tool, form) ==
  CASE tool = "ai_alt_text" ->
         IF ~Truthy(form) THEN "Please provide an image URL" ELSE ""
    [] tool = "text_simplification" ->
         IF ~Truthy(form) \/ Trim(form) = "" THEN "Please enter text to simplify" ELSE ""
    [] OTHER -> ""

\* What fetch() and response.json() can deliver: fetch rejects, or a response
\* with a status and a body that is no JSON, the JSON null, or an object whose
\* members success, message and data are as given ("absent" = no such member;
\* data is null, an object without alt_text/simplified_text, or one with it).
Rejected == [kind |-> "reject", ok |-> FALSE, json |-> "invalid",
             success |-> "absent", message |-> "absent", data |-> "absent"]

Responses(jsonVals, successVals, messageVals, dataVals) ==
  [kind : {"response"}, ok : BOOLEAN, json : jsonVals \ {"object"},
   success : {"absent"}, message : {"absent"}, data : {"absent"}]
  \cup
  [kind : {"response"}, ok : BOOLEAN, json : jsonVals \cap {"object"},
   success : successVals, message : messageVals, data : dataVals]

PopupOutcomes ==
  {Rejected} \cup Responses({"invalid", Null, "object"}, {"true", "false", "absent"},
                            {"msg", "absent"}, {"absent"})

\* `${x}` of a JSON member: an absent member prints as undefined.
Interp(v) == IF v = "absent" THEN "undefined" ELSE v

\* element.textContent = v: undefined and null become the empty text.
TextOf(v) == IF v \in {"absent", Null} THEN <<>> ELSE <<v>>

ErrorResult(m) == [cls |-> "result error", text |-> <<"Error: ", m>>]

\* The mutant: the HTTP status is not looked at.
ProcessResult_NoOkCheck(o) ==
  IF o.kind = "reject" THEN ErrorResult("Failed to fetch")
  ELSE IF o.json = "invalid" THEN ErrorResult("Unexpected token")
  ELSE IF o.json = Null THEN ErrorResult("Cannot read properties of null")
  ELSE IF Truthy(o.success)
    THEN [cls |-> "result success", text |-> TextOf(o.message)]
  ELSE ErrorResult(Interp(o.message))

\* The part of process() after the await of fetch: the class and text the result
\* element is left with.
ProcessResult(o) ==
  IF o.kind = "reject" THEN ErrorResult("Failed to fetch")
  ELSE IF ~o.ok THEN ErrorResult("HTTP error! status")
  ELSE IF o.json = "invalid" THEN ErrorResult("Unexpected token")
  ELSE IF o.json = Null THEN ErrorResult("Cannot read properties of null")
  ELSE IF Truthy(o.success)
    THEN [cls |-> "result success", text |-> TextOf(o.message)]
  ELSE ErrorResult(Interp(o.message))

\* The mutant: the button is re-enabled on the success path only.
ButtonAfterProcess_NoFinally(res) == res.cls = "result error"

\* finally { button.disabled = false }: the value of button.disabled after a run.
ButtonAfterProcess(res) == FALSE

LoadingText(tool) ==
  CASE tool = "ai_alt_text" -> "Generating AI alt text..."
    [] tool = "speech_to_instructions" -> "Processing speech commands..."
    [] tool = "text_simplification" -> "Simplifying text..."
    [] OTHER -> "Processing..."

NoRun == [Rejected EXCEPT !.kind = "none"]

PopupInit ==
  /\ popupTool \in PopupTools
  /\ popupHasResult \in BOOLEAN
  /\ popup = [disabled |-> FALSE, cls |-> "result", text |-> <<>>, pc |-> "idle"]
  /\ popupHist = [clicks |-> 0, requests |-> 0, inflight |-> 0, last |-> NoRun, form |-> "x"]

\* A click on the tool's button: process() up to its first await.  A disabled
\* button dispatches no click.
PopupClick(form) ==
  /\ ~popup.disabled
  /\ popupHist.clicks < MaxClicks
  /\ IF ~popupHasResult
       THEN UNCHANGED <<popup, popupHist>>       \* elements not found: return
       ELSE LET err == ValidationError(popupTool, form) IN
            IF err # ""
              THEN \* throw inside try: catch, then finally, with no await between
                   /\ popup' = [popup EXCEPT !.cls = ErrorResult(err).cls,
                                             !.text = ErrorResult(err).text,
                                             !.disabled = ButtonAfterProcess(ErrorResult(err))]
                   /\ popupHist' = [popupHist EXCEPT !.clicks = @ + 1,
                                                      !.last = [NoRun EXCEPT !.kind = "invalid_input"],
                                                      !.form = form]
              ELSE /\ popup' = [disabled |-> TRUE, cls |-> "result loading",
                                text |-> <<LoadingText(popupTool)>>, pc |-> "fetch"]
                   /\ popupHist' = [popupHist EXCEPT !.clicks = @ + 1,
                                                      !.requests = @ + 1,
                                                      !.inflight = @ + 1,
                                                      !.form = form]
  /\ UNCHANGED <<popupTool, popupHasResult, mgrVars, selVars, sseVars, msgVars, docVars>>

\* The fetch of a run settles: the rest of process().
PopupSettle(o) ==
  /\ popup.pc = "fetch"
  /\ LET res == ProcessResult(o) IN
       popup' = [disabled |-> ButtonAfterProcess(res), cls |-> res.cls,
                 text |-> res.text, pc |-> "idle"]
  /\ popupHist' = [popupHist EXCEPT !.inflight = @ - 1, !.last = o]
  /\ UNCHANGED <<popupTool, popupHasResult, mgrVars, selVars, sseVars, msgVars, docVars>>

\* ===========================================================================
\* FLOATING TOOLBAR: manager and inline selection tools
\* ===========================================================================
ToolIds == {"speech_to_instructions", "ai_alt_text", "adaptive_css",
            "semantic_search", "text_simplification"}
SelTools == {"ai_alt_text", "text_simplification"}
ChatTools == {"speech_to_instructions", "semantic_search"}

\* document.querySelectorAll('img'): the page's images, and img.src of each.
Images == {1, 2}
ImgSrc(img) == IF img = 1 THEN "http://page/a.png" ELSE "http://page/b.png"

\* The page's text elements that hold more than 20 characters at load.
TextEls == {1, 2}

NoPanel == [cls |-> "none", idx |-> 0]

RemoveAt(q, k) == [j \in 1..(Len(q) - 1) |-> IF j < k THEN q[j] ELSE q[j + 1]]

\* The requests in flight are kept in the order of their elements: responses
\* arrive in any order, so the order of issue carries nothing.
InsertReq(q, e) ==
  LET n == Cardinality({j \in DOMAIN q : q[j] <= e})
  IN SubSeq(q, 1, n) \o <<e>> \o SubSeq(q, n + 1, Len(q))

\* new AIAltTextTool() / new TextSimplificationTool() with the elements its
\* getContent() renders: the action button starts disabled, the result empty.
NewSel(tool) ==
  [tool |-> tool,
   isSelectingMode |-> FALSE,
   selected |-> 0,            \* selectedImage.element / selectedText.element, 0 = null
   selUrl |-> "",             \* selectedImage.url
   listeners |-> {},          \* page elements carrying this instance's handlers
   btnDisabled |-> TRUE,      \* #generate-alt-text-btn / #simplify-text-btn
   resCls |-> IF tool = "ai_alt_text" THEN "result" ELSE "default",
   resText |-> IF tool = "ai_alt_text" THEN <<>> ELSE <<"Simplify the selected text using AI">>,
   infoShown |-> FALSE,       \* #selected-photo-info / #selected-text-info
   preview |-> "",            \* #photo-url
   reqs |-> <<>>]             \* requests in flight: the element each was sent for

\* The model holds the document.  The elements of a content that openTool has
\* replaced are no longer part of it: an instance whose content was replaced
\* keeps its fields and its requests, and none of its elements.
Detach(s) ==
  [s EXCEPT !.btnDisabled = TRUE, !.resCls = "detached", !.resText = <<>>,
            !.infoShown = FALSE, !.preview = ""]

Selectable(s, pg) == IF s.tool = "ai_alt_text" THEN Images ELSE pg

EnableSelection(s, pg) == [s EXCEPT !.listeners = @ \cup Selectable(s, pg)]

\* The mutant: the click listener stays on the elements.
DisableSelection_KeepListeners(s, pg) == s

\* disablePhotoSelection / disableTextSelection: removeEventListener on every
\* matching element of the document.
DisableSelection(s, pg) == [s EXCEPT !.listeners = @ \ Selectable(s, pg)]

\* AIAltTextTool.updateSelectionUI
AltUpdateSelectionUI(s) ==
  IF s.selected # 0
    THEN [s EXCEPT !.infoShown = TRUE, !.preview = s.selUrl, !.btnDisabled = FALSE]
    ELSE [s EXCEPT !.infoShown = FALSE, !.btnDisabled = TRUE]

\* TextSimplificationTool.updateSelectionUI: the button is enabled for a
\* selection and left as it is without one; the status is reset either way.
TxtUpdateSelectionUI(s) ==
  LET r == [s EXCEPT !.resCls = "default",
                     !.resText = <<"Simplify the selected text using AI">>] IN
  IF s.selected # 0
    THEN [r EXCEPT !.infoShown = TRUE, !.btnDisabled = FALSE]
    ELSE r

UpdateSelectionUI(s) ==
  IF s.tool = "ai_alt_text" THEN AltUpdateSelectionUI(s) ELSE TxtUpdateSelectionUI(s)

\* toggleSelectionMode of either tool.
ToggleSelectionMode(s, pg) ==
  IF ~s.isSelectingMode
    THEN EnableSelection([s EXCEPT !.isSelectingMode = TRUE], pg)
    ELSE IF s.tool = "ai_alt_text"
      THEN DisableSelection([s EXCEPT !.isSelectingMode = FALSE], pg)
      ELSE TxtUpdateSelectionUI(
             [DisableSelection([s EXCEPT !.isSelectingMode = FALSE], pg)
                EXCEPT !.selected = 0])

\* handleImageClick / handleTextClick on element el (findSelectableElement
\* returns the listening element itself: it holds more than 20 characters).
HandleElementClick(s, el, pg) ==
  IF s.isSelectingMode
    THEN UpdateSelectionUI(
           DisableSelection(
             [s EXCEPT !.selected = el,
                       !.selUrl = IF s.tool = "ai_alt_text" THEN ImgSrc(el) ELSE "",
                       !.isSelectingMode = FALSE], pg))
    ELSE s

\* resetAIAltTextState / resetTextSimplificationState on the referenced instance.
ResetSelState(s, pg) ==
  UpdateSelectionUI(
    [DisableSelection([s EXCEPT !.isSelectingMode = FALSE], pg)
       EXCEPT !.selected = 0, !.selUrl = ""])

\* The mutant: currentTool is cleared before the reset looks at it.
ResetCurrentToolState_Late(cur, tss, aas, insts, pg) == insts

\* resetCurrentToolState: the instances after the reset of the current tool.
ResetCurrentToolState(cur, tss, aas, insts, pg) ==
  IF cur = "text_simplification"
    THEN IF tss # 0 THEN [insts EXCEPT ![tss] = ResetSelState(@, pg)] ELSE insts
  ELSE IF cur = "ai_alt_text"
    THEN IF aas # 0 THEN [insts EXCEPT ![aas] = ResetSelState(@, pg)] ELSE insts
  ELSE insts

\* ---------------------------------------------------------------------------
\* Requests of the selection tools
\* ---------------------------------------------------------------------------
\* data of the response: absent, null, an object without the generated text
\* ("empty"), an object with it ("with").
SelOutcomes ==
  {Rejected} \cup Responses({"invalid", "object"}, {"true", "false"},
                            {"msg"}, {Null, "empty", "with"})

\* What a settled request was, in the words of the interface: the request
\* failed (fetch rejected, status not OK, or success false), or it succeeded
\* with or without the generated text in its data.
OutcomeClass(o) ==
  IF o.kind = "reject" \/ ~o.ok \/ o.json # "object" \/ o.success # "true" THEN "failed"
  ELSE IF o.data = "with" THEN "generated"
  ELSE "empty"

\* data.data.alt_text / data.data.simplified_text throws a TypeError when data
\* is null or has no member data.
DataThrows(o) == o.json # "object" \/ o.data \in {"absent", Null}

\* generateAltText after its await: the api-result element it leaves.  Neither
\* response.ok nor data.success is read; `${undefined}` prints as undefined.
GenerateResult(o) ==
  IF o.kind = "reject" THEN ErrorResult("Failed to fetch")
  ELSE IF o.json = "invalid" THEN ErrorResult("Unexpected token")
  ELSE IF DataThrows(o) THEN ErrorResult("Cannot read properties")
  ELSE [cls |-> "result success",
        text |-> <<IF o.data = "with" THEN "alt text" ELSE "undefined">>]

\* simplifyText after its await: whether replaceTextWithSimplified is called,
\* and the status it leaves.  response.ok is not read.
SimplifyResult(o) ==
  IF o.kind = "reject" THEN [replace |-> FALSE, cls |-> "error", text |-> <<"Error: ", "Failed to fetch">>]
  ELSE IF o.json = "invalid" THEN [replace |-> FALSE, cls |-> "error", text |-> <<"Error: ", "Unexpected token">>]
  ELSE IF o.json = Null THEN [replace |-> FALSE, cls |-> "error", text |-> <<"Error: ", "Cannot read properties">>]
  ELSE IF Truthy(o.success)
    THEN IF o.data \in {"absent", Null}
           THEN [replace |-> FALSE, cls |-> "error", text |-> <<"Error: ", "Cannot read properties">>]
           ELSE [replace |-> TRUE, cls |-> "success", text |-> <<"Text replaced!">>]
  ELSE [replace |-> FALSE, cls |-> "error", text |-> <<"Error: ", Interp(o.message)>>]

\* The instance the manager has open, 0 if none is a selection tool.
OpenSel ==
  IF currentTool = "ai_alt_text" THEN aiAltTextState
  ELSE IF currentTool = "text_simplification" THEN textSimplificationState
  ELSE 0

\* this.shadowRoot.querySelector('#simplify-status'): the status element of the
\* text-simplification content the tool panel holds, 0 if it holds none.
StatusTarget ==
  IF panelOwner.cls = "sel" /\ selInsts[panelOwner.idx].tool = "text_simplification"
    THEN panelOwner.idx ELSE 0

\* Instance i's content is the one the tool panel holds.
Attached(i) == panelOwner = [cls |-> "sel", idx |-> i]

\* An instance that can still run code: it is open, or a response or a
\* listener of it is pending.  The others are garbage.
SelLive(k) ==
  \/ k = OpenSel
  \/ selInsts[k].reqs # <<>>
  \/ selInsts[k].listeners \cap Selectable(selInsts[k], page) # {}

LiveSelInsts == SelectSeq([k \in DOMAIN selInsts |-> [inst |-> selInsts[k], live |-> SelLive(k)]],
                          LAMBDA r : r.live)

\* The smallest element id in use nowhere: the wrapper replaceTextWithSimplified
\* creates.
Referenced(insts) ==
  UNION {{insts[k].selected} \cup {insts[k].reqs[j] : j \in DOMAIN insts[k].reqs}
           : k \in {k \in DOMAIN insts : insts[k].tool = "text_simplification"}}
FreshEl(pg, insts) ==
  CHOOSE n \in 1..(Cardinality(pg) + Cardinality(Referenced(insts)) + 1) :
    /\ n \notin pg \cup Referenced(insts)
    /\ \A m \in 1..(n - 1) : m \in pg \cup Referenced(insts)

MgrInit ==
  /\ isExpanded = FALSE
  /\ currentTool = Null
  /\ textSimplificationState = 0
  /\ aiAltTextState = 0
  /\ panelOwner = NoPanel

SelInit ==
  /\ selInsts = <<>>
  /\ page = TextEls

\* ---------------------------------------------------------------------------
\* Chat tool instances (SpeechToInstructionsTool, WebsiteSearchTool): the
\* resources they own
\* ---------------------------------------------------------------------------
\* The delays of the reconnect setTimeout in the onerror handlers, of the
\* first connectSSE, and of the audio buffer's setInterval.
SpeechReconnectDelay == 5000
SearchReconnectDelay == 5000
InitialConnectDelay == 100
BufferInterval == 200
ExtractDelay == 200
\* The delay sendTextCommand waits between the scan results and the command.
CommandDelay == 500

\* Message ids: null, the empty string, and the strings the tools generate.
\* The speech tool takes Math.random().toString(36).substring(7): what is left
\* of the base-36 digits after the seventh character, which starts with a
\* letter or with a digit, or is empty when the number has few digits.  The
\* search tool takes 'msg_' followed by up to seven of these digits.
NullId == [lead |-> "null", inst |-> 0, n |-> 0]
EmptyId == [lead |-> "", inst |-> 0, n |-> 0]
SpeechMessageIds(c, n) ==
  {[lead |-> "letter", inst |-> c, n |-> n], [lead |-> "digit", inst |-> c, n |-> n],
   EmptyId}
SearchMessageIds(c, n) == {[lead |-> "msg_", inst |-> c, n |-> n]}

ReconnectDelay(tool) ==
  IF tool = "speech_to_instructions" THEN SpeechReconnectDelay ELSE SearchReconnectDelay

\* new SpeechToInstructionsTool() / new WebsiteSearchTool(), followed by
\* setupEventListeners, which schedules the first connectSSE.  The search tool
\* has no audio fields; they stay at their initial values in its instances.
NewChat(tool) ==
  [tool |-> tool,
   conns |-> <<>>,             \* the EventSources created and not closed yet, and the
                               \* one this.eventSource refers to: the last created
   isAudioMode |-> FALSE,
   initTimer |-> <<InitialConnectDelay>>,   \* pending setTimeout(connectSSE, 100)
   reconnects |-> <<>>,        \* pending reconnect timers: the delay of each
   extractTimer |-> IF tool = "semantic_search" THEN <<ExtractDelay>> ELSE <<>>,
                               \* pending setTimeout(extractWebsiteContent, 200)
   bufferTimer |-> 0,          \* the period of the setInterval held, 0 = null
   mic |-> Null,               \* micStream: null, live, stopped
   audioBuffer |-> <<>>,
   audioSends |-> 0,           \* audio POSTs in flight
   audioSent |-> <<>>,         \* history: the body of every audio POST issued, each
                               \* the numbers of the PCM chunks combined in it
   currentMessageId |-> NullId,
   messageBuffer |-> <<>>,     \* a string: the pieces received
   processingButton |-> FALSE,
   flagTimers |-> 0,           \* pending setTimeout(processingButton = false, 1000)
   posts |-> <<>>,             \* the async functions waiting: for a POST or a delay
   turn |-> <<>>,              \* history: the chat chunks since the last turn_complete
   bufferNos |-> <<>>,         \* history: for each piece of messageBuffer, the number
                               \* of the message that brought it
   executed |-> <<>>,          \* history: the actions executed, each with the numbers
                               \* of the first and last message of its JSON
   blocked |-> {},             \* history: the numbers of the text messages received
                               \* while processingButton was true
   shown |-> {},               \* history: the numbers of the messages whose data was
                               \* put into an agent bubble
   ids |-> 0,                  \* history: message ids generated
   received |-> 0,             \* history: SSE messages handled
   commands |-> 0,             \* history: texts the user has sent
   commandPosts |-> 0,         \* history: POSTs of a user's command issued
   recorded |-> 0,             \* history: PCM chunks handed to audioRecorderHandler
   errors |-> 0,               \* history: error events of its connections
   connects |-> 0]             \* history: connectSSE calls made by reconnect timers

\* this.eventSource: the index of the EventSource last created, 0 = null.
EventSourceOf(c) == Len(c.conns)

\* A closed EventSource delivers no event any more; of the closed ones only
\* the one this.eventSource refers to is kept.
Prune(conns) ==
  LET n == Len(conns)
      keep == SelectSeq([j \in 1..n |-> [c |-> conns[j], last |-> j = n]],
                        LAMBDA r : r.last \/ r.c.state # "closed")
  IN [j \in DOMAIN keep |-> keep[j].c]

\* connectSSE(): a new EventSource, connecting, takes the place of
\* this.eventSource; the one it referred to before is not closed.
ConnectSSE(c) ==
  [c EXCEPT !.conns = Append(SelectSeq(@, LAMBDA r : r.state # "closed"),
                             [state |-> "connecting",
                              isAudio |-> c.isAudioMode /\ c.tool = "speech_to_instructions"])]

\* The mutant of closeTool: the open chat instance is torn down.
CloseToolChat_TearDown(cur, insts) ==
  IF cur \in ChatTools /\ Len(insts) > 0
    THEN LET c == insts[Len(insts)] IN
         [insts EXCEPT ![Len(insts)] =
            [c EXCEPT !.conns = Prune([k \in DOMAIN c.conns |->
                                         [c.conns[k] EXCEPT !.state = "closed"]]),
                      !.reconnects = <<>>,
                      !.bufferTimer = 0,
                      !.mic = IF c.mic = "live" THEN "stopped" ELSE c.mic]]
    ELSE insts

\* closeTool and resetCurrentToolState on the chat instances: no branch of
\* either touches a speech or search instance.
CloseToolChat(cur, insts) == insts

\* ---------------------------------------------------------------------------
\* The chat tools' part of the tool panel
\* ---------------------------------------------------------------------------
\* The children of a chat element are bubbles (class chat-message agent or
\* user, with an id or the empty id), kept in document order, and, in the
\* speech chat, system lines, kept as the set of the lines shown: where a
\* system line stands among the other children, and how many times it is
\* there, is not recorded.
Bubble(sender, id, text) == [cls |-> sender, id |-> id, text |-> text]
SystemLine(text, type) == [text |-> text, type |-> type]

\* getContent() of the speech tool: #chat-messages with the greeting bubble,
\* #start-audio-btn displayed and #stop-audio-btn with display: none.
Greeting == Bubble("agent", EmptyId, <<"Hello! I'm ready to help you interact with this webpage.">>)
SpeechContent ==
  [present |-> TRUE, children |-> <<Greeting>>, lines |-> {},
   startBtn |-> TRUE, stopBtn |-> FALSE]
\* getContent() of the search tool: an empty #search-chat-messages, #search-status.
SearchContent ==
  [present |-> TRUE, children |-> <<>>,
   status |-> [text |-> <<"Ready to search this webpage">>, type |-> "info"]]
\* The panel holds another tool's content: the elements are not found.
NoSpeechContent ==
  [present |-> FALSE, children |-> <<>>, lines |-> {},
   startBtn |-> FALSE, stopBtn |-> FALSE]
NoSearchContent ==
  [present |-> FALSE, children |-> <<>>, status |-> [text |-> <<>>, type |-> ""]]

\* addChatMessage(text, sender, id) of both tools; this.container is set from
\* setupEventListeners on.  `if (id) messageDiv.id = id`.
AddChatMessage(dom, text, sender, id) ==
  IF ~dom.present THEN dom
  ELSE [dom EXCEPT !.children =
          Append(@, Bubble(sender, IF id = NullId THEN EmptyId ELSE id, text))]

\* addSystemMessage(text, type) of the speech tool.
AddSystemMessage(dom, text, type) ==
  IF ~dom.present THEN dom
  ELSE [dom EXCEPT !.lines = @ \cup {SystemLine(text, type)}]

\* The Update UI lines of startAudioRecording and stopAudioRecording: the
\* display of the two audio buttons, if the container has them.
AudioButtons(dom, start, stop) ==
  IF ~dom.present THEN dom
  ELSE [dom EXCEPT !.startBtn = start, !.stopBtn = stop]

\* updateStatus(message, type) of the search tool.
UpdateStatus(dom, message, type) ==
  IF ~dom.present THEN dom
  ELSE [dom EXCEPT !.status = [text |-> message, type |-> type]]

\* A chat instance tells the user: a system line in the speech chat, the
\* status of the search tool.
Tell(c, text, type) ==
  IF chatInsts[c].tool = "speech_to_instructions"
    THEN /\ speech' = AddSystemMessage(speech, text, type)
         /\ UNCHANGED search
    ELSE /\ search' = UpdateStatus(search, text, type)
         /\ UNCHANGED speech

\* toolPanel.innerHTML = header + toolInstance.getContent()
PanelContent(toolId) ==
  /\ speech' = IF toolId = "speech_to_instructions" THEN SpeechContent ELSE NoSpeechContent
  /\ search' = IF toolId = "semantic_search" THEN SearchContent ELSE NoSearchContent

\* ---------------------------------------------------------------------------
\* Manager actions
\* ---------------------------------------------------------------------------
\* closeTool()
DoCloseTool ==
  /\ selInsts' = ResetCurrentToolState(currentTool, textSimplificationState,
                                       aiAltTextState, selInsts, page)
  /\ chatInsts' = CloseToolChat(currentTool, chatInsts)
  /\ textSimplificationState' = 0
  /\ aiAltTextState' = 0
  /\ currentTool' = Null
  /\ UNCHANGED <<panelOwner, page>>

\* A click on a tool item of the grid: openTool(toolId).  The grid is hidden
\* while a tool panel is shown.  toolPanel.innerHTML replaces the elements of
\* the content shown before.
OpenTool(toolId) ==
  /\ isExpanded
  /\ currentTool = Null
  /\ currentTool' = toolId
  /\ LET kept == [k \in DOMAIN LiveSelInsts |-> Detach(LiveSelInsts[k].inst)] IN
     IF toolId \in SelTools
       THEN /\ selInsts' = Append(kept, NewSel(toolId))
            /\ panelOwner' = [cls |-> "sel", idx |-> Len(kept) + 1]
            /\ textSimplificationState' =
                 IF toolId = "text_simplification" THEN Len(kept) + 1
                 ELSE textSimplificationState
            /\ aiAltTextState' =
                 IF toolId = "ai_alt_text" THEN Len(kept) + 1 ELSE aiAltTextState
            /\ UNCHANGED chatInsts
       ELSE /\ toolId \in ChatTools => chatHist.events < MaxEvents
            /\ selInsts' = kept
            /\ chatInsts' = IF toolId \in ChatTools
                              THEN Append(chatInsts, NewChat(toolId)) ELSE chatInsts
            /\ panelOwner' = IF toolId \in ChatTools
                               THEN [cls |-> "chat", idx |-> Len(chatInsts) + 1]
                               ELSE [cls |-> "css", idx |-> 0]
            /\ UNCHANGED <<textSimplificationState, aiAltTextState>>
  /\ PanelContent(toolId)
  /\ chatHist' = IF toolId \in ChatTools THEN [chatHist EXCEPT !.events = @ + 1]
                 ELSE chatHist
  /\ UNCHANGED <<isExpanded, page, popupVars, docVars>>

\* A click on the back button of the tool panel.
BackClick ==
  /\ currentTool # Null
  /\ DoCloseTool
  /\ UNCHANGED <<isExpanded, popupVars, msgVars, docVars>>

\* togglePanel(): the main button, or the toggleFloatingUI message.
TogglePanel ==
  /\ IF isExpanded
       THEN /\ isExpanded' = FALSE
            /\ IF currentTool # Null
                 THEN DoCloseTool
                 ELSE UNCHANGED <<currentTool, textSimplificationState, aiAltTextState,
                                  panelOwner, selInsts, page, chatInsts>>
       ELSE /\ isExpanded' = TRUE
            /\ UNCHANGED <<currentTool, textSimplificationState, aiAltTextState,
                           panelOwner, selInsts, page, chatInsts>>
  /\ UNCHANGED <<popupVars, msgVars, docVars>>

\* A click on the panel header: minimizePanel().
HeaderClick ==
  /\ isExpanded
  /\ isExpanded' = FALSE
  /\ IF currentTool # Null
       THEN DoCloseTool
       ELSE UNCHANGED <<currentTool, textSimplificationState, aiAltTextState,
                        panelOwner, selInsts, page, chatInsts>>
  /\ UNCHANGED <<popupVars, msgVars, docVars>>

\* ---------------------------------------------------------------------------
\* Selection tool actions
\* ---------------------------------------------------------------------------
SelFrame == UNCHANGED <<mgrVars, sseVars, popupVars, msgVars, docVars>>

\* A click on #select-photo-btn / #select-text-btn of the open tool.
SelectBtnClick ==
  /\ OpenSel # 0
  /\ selInsts' = [selInsts EXCEPT ![OpenSel] = ToggleSelectionMode(@, page)]
  /\ UNCHANGED page
  /\ SelFrame

\* A click on a page element that carries instance i's click listener.
ElementClick(i, el) ==
  /\ el \in selInsts[i].listeners
  /\ el \in Selectable(selInsts[i], page)
  /\ selInsts' = [selInsts EXCEPT ![i] = HandleElementClick(@, el, page)]
  /\ UNCHANGED page
  /\ SelFrame

\* The requests in flight, over the first n instances.
RECURSIVE InflightTotal(_, _)
InflightTotal(insts, n) ==
  IF n = 0 THEN 0 ELSE Len(insts[n].reqs) + InflightTotal(insts, n - 1)

\* A click on #generate-alt-text-btn / #simplify-text-btn of the open tool:
\* generateAltText / simplifyText up to the await of fetch.  The environment
\* leaves at most `limit` requests unanswered.
ActionBtnClick(limit) ==
  LET i == OpenSel IN
  /\ i # 0
  /\ ~selInsts[i].btnDisabled
  /\ IF selInsts[i].selected = 0
       THEN /\ selInsts' = [selInsts EXCEPT ![i] =
                 IF @.tool = "ai_alt_text"
                   THEN [@ EXCEPT !.resCls = "result error",
                                  !.resText = <<"Please select a photo first">>]
                   ELSE [@ EXCEPT !.resCls = "error",
                                  !.resText = <<"Please select text first">>]]
       ELSE /\ InflightTotal(selInsts, Len(selInsts)) < limit
            /\ selInsts' = [selInsts EXCEPT ![i] =
                 [@ EXCEPT !.btnDisabled = TRUE,
                           !.resCls = IF selInsts[i].tool = "ai_alt_text"
                                        THEN "result loading" ELSE "loading",
                           !.resText = IF selInsts[i].tool = "ai_alt_text"
                                         THEN <<"Generating alt text...">>
                                         ELSE <<"Simplifying text...">>,
                           !.reqs = InsertReq(@, selInsts[i].selected)]]
  /\ UNCHANGED page
  /\ SelFrame

\* The k-th request in flight of alt-text instance i settles.
GenerateSettle(i, k, o) ==
  /\ selInsts[i].tool = "ai_alt_text"
  /\ k \in DOMAIN selInsts[i].reqs
  /\ LET res == GenerateResult(o) IN
       selInsts' = [selInsts EXCEPT ![i] =
                      IF Attached(i)
                        THEN [@ EXCEPT !.resCls = res.cls, !.resText = res.text,
                                       !.btnDisabled = FALSE,
                                       !.reqs = RemoveAt(@, k)]
                        ELSE [@ EXCEPT !.reqs = RemoveAt(@, k)]]
  /\ UNCHANGED page
  /\ SelFrame

\* The k-th request in flight of text-simplification instance i settles.  The
\* status goes to the #simplify-status the tool panel holds; the simplified
\* text replaces the element the instance has selected now, if any.
SimplifySettle(i, k, o) ==
  /\ selInsts[i].tool = "text_simplification"
  /\ k \in DOMAIN selInsts[i].reqs
  /\ LET res == SimplifyResult(o)
         sel == selInsts[i].selected
         doReplace == res.replace /\ sel # 0
         a == [selInsts EXCEPT ![i] =
                 [@ EXCEPT !.btnDisabled = IF Attached(i) THEN FALSE ELSE @,
                           !.reqs = RemoveAt(@, k),
                           !.selected = IF doReplace THEN 0 ELSE @]]
         b == IF StatusTarget = 0 THEN a
              ELSE [a EXCEPT ![StatusTarget] =
                      [@ EXCEPT !.resCls = res.cls, !.resText = res.text]]
     IN /\ selInsts' = IF doReplace
                         THEN [j \in DOMAIN b |->
                                 IF b[j].tool = "text_simplification"
                                   THEN [b[j] EXCEPT !.listeners = @ \ {sel}] ELSE b[j]]
                         ELSE b
        /\ page' = IF doReplace
                     THEN (page \ {sel}) \cup {FreshEl(page, a)}
                     ELSE page
  /\ SelFrame

\* ---------------------------------------------------------------------------
\* Chat tool actions: connections, timers, audio
\* ---------------------------------------------------------------------------
ChatFrame == UNCHANGED <<mgrVars, selVars, popupVars, docVars>>
DomFrame == UNCHANGED <<speech, search>>

\* Instance c's content is shown: its buttons can be clicked.
Shown(c) ==
  /\ c \in DOMAIN chatInsts
  /\ currentTool = chatInsts[c].tool
  /\ panelOwner = [cls |-> "chat", idx |-> c]

\* One more event may come to the chat tools from outside.
MoreEvents == chatHist.events < MaxEvents
Event == chatHist' = [chatHist EXCEPT !.events = @ + 1]
NoEvent == UNCHANGED chatHist

\* The setTimeout of setupEventListeners fires: connectSSE().
FireInitTimer(c) ==
  /\ c \in DOMAIN chatInsts
  /\ chatInsts[c].initTimer # <<>>
  /\ chatInsts' = [chatInsts EXCEPT ![c] = ConnectSSE([@ EXCEPT !.initTimer = <<>>])]
  /\ DomFrame
  /\ NoEvent
  /\ ChatFrame

\* The open event of EventSource k of instance c: onopen.
SSEOpen(c, k) ==
  /\ chatInsts[c].conns[k].state = "connecting"
  /\ chatInsts' = [chatInsts EXCEPT ![c].conns[k].state = "open"]
  /\ IF chatInsts[c].tool = "speech_to_instructions"
       THEN Tell(c, <<"Connected to speech commands">>, "success")
       ELSE Tell(c, <<"Connected to search agent">>, "success")
  /\ NoEvent
  /\ ChatFrame

\* The mutant of onerror: the delay doubles with every failure.
OnError_Backoff(c) ==
  [c EXCEPT !.reconnects = Append(@, ReconnectDelay(c.tool) * (c.errors + 1)),
            !.errors = @ + 1]

\* eventSource.onerror: a message to the user, and setTimeout(connectSSE, 5000).
OnError(c) ==
  [c EXCEPT !.reconnects = Append(@, ReconnectDelay(c.tool)),
            !.errors = @ + 1]

\* An error event of EventSource k of instance c.  The browser retries the
\* connection by itself, or gives it up for good (fatal): the EventSource is
\* connecting again, or closed.
SSEError(c, k, fatal) ==
  /\ chatInsts[c].conns[k].state \in {"connecting", "open"}
  /\ MoreEvents
  /\ LET inst == chatInsts[c]
         after == [inst.conns EXCEPT ![k].state =
                     IF fatal THEN "closed" ELSE "connecting"]
     IN chatInsts' = [chatInsts EXCEPT ![c] =
                        OnError([inst EXCEPT !.conns = Prune(after)])]
  /\ Tell(c, <<"Connection lost, reconnecting...">>, "error")
  /\ Event
  /\ ChatFrame

\* The oldest reconnect timer of instance c fires: connectSSE().
FireReconnect(c) ==
  /\ c \in DOMAIN chatInsts
  /\ chatInsts[c].reconnects # <<>>
  /\ chatInsts' = [chatInsts EXCEPT ![c] =
                     ConnectSSE([@ EXCEPT !.reconnects = Tail(@),
                                          !.connects = @ + 1])]
  /\ DomFrame
  /\ NoEvent
  /\ ChatFrame

\* The mutant of toggleMode: the mode is flipped after the reconnect.
ToggleMode_FlipLate(c) ==
  /\ Shown(c)
  /\ MoreEvents
  /\ chatInsts[c].tool = "speech_to_instructions"
  /\ LET inst == chatInsts[c]
         n == EventSourceOf(inst)
         closed == IF n # 0 THEN [inst.conns EXCEPT ![n].state = "closed"]
                   ELSE inst.conns
     IN chatInsts' = [chatInsts EXCEPT ![c] =
                        [ConnectSSE([inst EXCEPT !.conns = closed])
                           EXCEPT !.isAudioMode = ~@]]
  /\ DomFrame
  /\ Event
  /\ ChatFrame

\* A click on #toggle-mode-btn: toggleMode().
ToggleMode(c) ==
  /\ Shown(c)
  /\ MoreEvents
  /\ chatInsts[c].tool = "speech_to_instructions"
  /\ LET inst == chatInsts[c]
         n == EventSourceOf(inst)
         closed == IF n # 0 THEN [inst.conns EXCEPT ![n].state = "closed"]
                   ELSE inst.conns
     IN chatInsts' = [chatInsts EXCEPT ![c] =
                        ConnectSSE([inst EXCEPT !.isAudioMode = ~@, !.conns = closed])]
  /\ DomFrame
  /\ Event
  /\ ChatFrame

\* A click on #start-audio-btn, shown in audio mode while nothing records:
\* startAudioRecording().  Either the worklets start, or one of the awaited
\* calls throws and the catch reports it.
StartAudioRecording(c, started) ==
  /\ Shown(c)
  /\ MoreEvents
  /\ chatInsts[c].tool = "speech_to_instructions"
  /\ chatInsts[c].isAudioMode
  /\ chatInsts[c].mic # "live"
  /\ chatInsts' = [chatInsts EXCEPT ![c] =
                     [@ EXCEPT !.mic = IF started THEN "live" ELSE @]]
  /\ speech' = IF started
                 THEN AddSystemMessage(AudioButtons(speech, FALSE, TRUE),
                                       <<"Audio recording started">>, "success")
                 ELSE AddSystemMessage(speech, <<"Audio error: ", "msg">>, "error")
  /\ UNCHANGED search
  /\ Event
  /\ ChatFrame

\* The recorder worklet hands over a PCM chunk: audioRecorderHandler(pcmData).
AudioRecorderHandler(c) ==
  /\ chatInsts[c].mic = "live"
  /\ MoreEvents
  /\ chatInsts' = [chatInsts EXCEPT ![c] =
                     [@ EXCEPT !.audioBuffer = Append(@, chatInsts[c].recorded + 1),
                               !.recorded = @ + 1,
                               !.bufferTimer = IF @ = 0 THEN BufferInterval ELSE @]]
  /\ DomFrame
  /\ Event
  /\ ChatFrame

\* sendBufferedAudio() up to its await: nothing for an empty buffer, else a POST.
SendBufferedAudio(c) ==
  IF c.audioBuffer = <<>> THEN c
  ELSE [c EXCEPT !.audioSends = @ + 1, !.audioSent = Append(@, c.audioBuffer)]

\* A tick of the buffer timer.
BufferTick(c) ==
  /\ chatInsts[c].bufferTimer # 0
  /\ chatInsts[c].audioSends < MaxSends
  /\ chatInsts' = [chatInsts EXCEPT ![c] = SendBufferedAudio(@)]
  /\ DomFrame
  /\ NoEvent
  /\ ChatFrame

\* The POST of sendBufferedAudio settles, whatever the status, or fetch
\* rejects and the catch reports it: then this.audioBuffer = [].
AudioSendSettle(c, rejected) ==
  /\ chatInsts[c].audioSends > 0
  /\ MoreEvents
  /\ chatInsts' = [chatInsts EXCEPT ![c] =
                     [@ EXCEPT !.audioSends = @ - 1, !.audioBuffer = <<>>]]
  /\ IF rejected
       THEN Tell(c, <<"Audio send error: ", "msg">>, "error")
       ELSE DomFrame
  /\ Event
  /\ ChatFrame

\* The mutant of stopAudioRecording: the interval is not cleared.
StopAudioRecording_KeepTimer(c) ==
  /\ Shown(c)
  /\ MoreEvents
  /\ chatInsts[c].tool = "speech_to_instructions"
  /\ chatInsts[c].mic = "live"
  /\ chatInsts[c].audioSends < MaxSends
  /\ chatInsts' = [chatInsts EXCEPT ![c] =
                     [SendBufferedAudio(@) EXCEPT !.mic = "stopped"]]
  /\ speech' = AddSystemMessage(AudioButtons(speech, TRUE, FALSE),
                                <<"Audio recording stopped">>, "info")
  /\ UNCHANGED search
  /\ Event
  /\ ChatFrame

\* A click on #stop-audio-btn, shown while recording: stopAudioRecording().
StopAudioRecording(c) ==
  /\ Shown(c)
  /\ MoreEvents
  /\ chatInsts[c].tool = "speech_to_instructions"
  /\ chatInsts[c].mic = "live"
  /\ chatInsts[c].audioSends < MaxSends
  /\ chatInsts' = [chatInsts EXCEPT ![c] =
                     [SendBufferedAudio([@ EXCEPT !.bufferTimer = 0])
                        EXCEPT !.mic = "stopped"]]
  /\ speech' = AddSystemMessage(AudioButtons(speech, TRUE, FALSE),
                                <<"Audio recording stopped">>, "info")
  /\ UNCHANGED search
  /\ Event
  /\ ChatFrame

\* What a POST of a chat tool comes to: a response with an OK status, a
\* response with another status, or a rejected fetch.
PostOutcomes == {"ok", "status", "reject"}

\* An async function of a chat instance that waits at `pc`: for a POST to
\* settle or, with a delay, for a setTimeout to fire.
Waiting(fn, pc, text) == [fn |-> fn, pc |-> pc, text |-> text, delay |-> 0]

\* ---------------------------------------------------------------------------
\* Chat tools: what the agent sends
\* ---------------------------------------------------------------------------
\* The data of text/plain messages.  A string is one of these pieces, a
\* buffer is the sequence of the pieces received.
ClickBuy == "{\"elementId\":\"buy\",\"event\":\"click\"}"
Click7up == "{\"elementId\":\"7up\",\"event\":\"click\"}"
NestedBuy == "{\"result\":\"{\\\"elementId\\\":\\\"buy\\\",\\\"event\\\":\\\"click\\\"}\"}"
ScanRequest == "{\"action\":\"scan_webpage\"}"
\* ClickBuy as the agent streams it in two chunks.
ClickHead == "{\"elementId\":\"buy\","
ClickTail == "\"event\":\"click\"}"
ChatTexts == {"Hi", " there"}
SystemTexts == {"Scan complete"}
JsonTexts == {ClickBuy, Click7up, NestedBuy, ScanRequest}
TextData == ChatTexts \cup SystemTexts \cup JsonTexts \cup {ClickHead, ClickTail}

\* JSON.parse(text): the fields the handlers read, or a SyntaxError.
NoJson == [ok |-> FALSE, elementId |-> "", event |-> "", action |-> "", result |-> ""]
JsonParse(text) ==
  CASE text = ClickBuy -> [NoJson EXCEPT !.ok = TRUE, !.elementId = "buy", !.event = "click"]
    [] text = Click7up -> [NoJson EXCEPT !.ok = TRUE, !.elementId = "7up", !.event = "click"]
    [] text = NestedBuy -> [NoJson EXCEPT !.ok = TRUE, !.result = ClickBuy]
    [] text = ScanRequest -> [NoJson EXCEPT !.ok = TRUE, !.action = "scan_webpage"]
    [] OTHER -> NoJson

\* JSON.parse of a part of the buffer: of the pieces in a row, the two halves
\* of ClickBuy make a JSON text.
JsonParseBuffer(pieces) ==
  IF Len(pieces) = 1 THEN JsonParse(pieces[1])
  ELSE IF pieces = <<ClickHead, ClickTail>> THEN JsonParse(ClickBuy)
  ELSE NoJson

\* The braces of a piece, in the order they stand in it.  A JSON text starts
\* with its first brace and ends with its last.
Braces(text) ==
  CASE text \in {ClickBuy, Click7up, ScanRequest} -> <<"{", "}">>
    [] text = NestedBuy -> <<"{", "{", "}", "}">>
    [] text = ClickHead -> <<"{">>
    [] text = ClickTail -> <<"}">>
    [] OTHER -> <<>>

\* `#${id}` is a selector the browser accepts: an identifier does not start
\* with a digit and is not empty.
ValidIdSelector(id) == id.lead \in {"letter", "msg_"}
ValidElementSelector(elementId) == elementId \notin {"7up", ""}

\* The messages of the event stream, after JSON.parse(event.data); event.data
\* that does not parse makes onmessage's catch log it.
Messages ==
  {[kind |-> k, data |-> ""] : k \in {"turn_complete", "interrupted", "audio/pcm", "malformed"}}
    \cup {[kind |-> "text/plain", data |-> d] : d \in TextData}

\* ---------------------------------------------------------------------------
\* Speech tool: handling a message
\* ---------------------------------------------------------------------------
\* The handlers below run on w = [inst, dom, page]: the fields of the
\* instance, the chat it writes to, the host page.  inst.received is the
\* number of the message being handled.

\* scanWebpageElements().elements.length
ElementsFound(w) == w.page.buttons

\* sendScanResults(scanResult) up to its await.
SendScanResults(w, fn, text) ==
  [w EXCEPT !.inst.posts = Append(@, Waiting(fn, "scan", text))]

\* The scan_webpage branches: the scan, a system line, sendScanResults.
ScanWebpage(w) ==
  SendScanResults(
    [w EXCEPT !.dom = AddSystemMessage(@, <<ToString(ElementsFound(w)), " elements found">>, "info")],
    "sendScanResults", "")

\* handleButtonAction(data): querySelector(`#${data.elementId}`) throws for
\* an id that is no identifier.  Else the element with that id, a button
\* matched by its text, or the first button of the page is clicked and the
\* chat says so; a page without any leaves an error line.
HandleButtonAction(w, data) ==
  IF ~ValidElementSelector(data.elementId)
    THEN [w |-> w, threw |-> TRUE]
    ELSE [w |-> IF w.page.buttons > 0
                  THEN [w EXCEPT !.page.clicked = @ + 1,
                                 !.dom = AddChatMessage(@, <<"I clicked the button.">>,
                                                        "agent", NullId)]
                  ELSE [w EXCEPT !.dom = AddSystemMessage(@, <<"No button found on webpage">>,
                                                          "error")],
          threw |-> FALSE]

\* A click action is executed: the flag is set, handleButtonAction runs, and
\* then the reset of the flag is scheduled.  When handleButtonAction throws,
\* the flag stays set and nothing is scheduled.
ExecuteClick(w, data) ==
  LET flagged == [w EXCEPT !.inst.processingButton = TRUE]
      r == HandleButtonAction(flagged, data)
  IN IF r.threw THEN [w |-> flagged, processed |-> FALSE]
     ELSE [w |-> [r.w EXCEPT !.inst.flagTimers = @ + 1], processed |-> TRUE]

IsClick(data) == data.elementId # "" /\ data.event = "click"

\* The mutant of tryParseJSONActions: the executed JSON stays in the buffer.
Processed_KeepBuffer(w, jsonStr, rest) ==
  LET nos == w.inst.bufferNos
      last == Len(nos) - Len(rest)
  IN [w EXCEPT !.inst.executed =
                  Append(@, [from |-> nos[last - Len(jsonStr) + 1], to |-> nos[last],
                             by |-> "buffer",
                             kind |-> IF JsonParseBuffer(jsonStr).action = "scan_webpage"
                                        THEN "scan" ELSE "click"])]

\* this.messageBuffer = this.messageBuffer.substring(i + 1) after an action of
\* the buffer was executed: jsonStr and all before it leave the buffer, `rest`
\* stays.  The history gets the action.
Processed(w, jsonStr, rest) ==
  LET nos == w.inst.bufferNos
      last == Len(nos) - Len(rest)
  IN [w EXCEPT !.inst.messageBuffer = rest,
               !.inst.bufferNos = SubSeq(nos, last + 1, Len(nos)),
               !.inst.executed =
                  Append(@, [from |-> nos[last - Len(jsonStr) + 1], to |-> nos[last],
                             by |-> "buffer",
                             kind |-> IF JsonParseBuffer(jsonStr).action = "scan_webpage"
                                        THEN "scan" ELSE "click"])]

\* The mutant of tryParseJSONActions: the direct click branch does not test
\* processingButton.
TryObject_NoFlagTest(w, jsonStr, rest) ==
  LET data == JsonParseBuffer(jsonStr)
      cut(r) == IF r.processed THEN [r EXCEPT !.w = Processed(@, jsonStr, rest)] ELSE r
  IN IF ~data.ok THEN [w |-> w, processed |-> FALSE]
     ELSE IF data.action = "scan_webpage"
       THEN [w |-> Processed(ScanWebpage(w), jsonStr, rest), processed |-> TRUE]
     ELSE IF IsClick(data)
       THEN cut(ExecuteClick(w, data))
     ELSE IF data.result # "" /\ ~w.inst.processingButton
       THEN LET innerData == JsonParse(data.result) IN
            IF innerData.ok /\ IsClick(innerData)
              THEN cut(ExecuteClick(w, innerData))
              ELSE [w |-> w, processed |-> FALSE]
     ELSE [w |-> w, processed |-> FALSE]

\* The body of tryParseJSONActions for a complete object jsonStr of the
\* buffer, with `rest` the buffer after it.
TryObject(w, jsonStr, rest) ==
  LET data == JsonParseBuffer(jsonStr)
      cut(r) == IF r.processed THEN [r EXCEPT !.w = Processed(@, jsonStr, rest)] ELSE r
  IN IF ~data.ok THEN [w |-> w, processed |-> FALSE]
     ELSE IF data.action = "scan_webpage"
       THEN [w |-> Processed(ScanWebpage(w), jsonStr, rest), processed |-> TRUE]
     ELSE IF IsClick(data) /\ ~w.inst.processingButton
       THEN cut(ExecuteClick(w, data))
     ELSE IF data.result # "" /\ ~w.inst.processingButton
       THEN LET innerData == JsonParse(data.result) IN
            IF innerData.ok /\ IsClick(innerData)
              THEN cut(ExecuteClick(w, innerData))
              ELSE [w |-> w, processed |-> FALSE]
     ELSE [w |-> w, processed |-> FALSE]

\* The braces of the buffer from piece i on, each with the piece it stands in.
RECURSIVE BracePositions(_, _)
BracePositions(buf, i) ==
  IF i > Len(buf) THEN <<>>
  ELSE [b \in DOMAIN Braces(buf[i]) |-> [piece |-> i, ch |-> Braces(buf[i])[b]]]
         \o BracePositions(buf, i + 1)

\* The loop of tryParseJSONActions from brace p on; startIndex 0 is -1.
RECURSIVE ScanBraces(_, _, _, _, _)
ScanBraces(w, pos, p, startIndex, braceCount) ==
  IF p > Len(pos) THEN [w |-> w, processed |-> FALSE]
  ELSE IF pos[p].ch = "{"
    THEN ScanBraces(w, pos, p + 1, IF startIndex = 0 THEN pos[p].piece ELSE startIndex,
                    braceCount + 1)
  ELSE IF braceCount - 1 = 0 /\ startIndex # 0
    THEN LET buf == w.inst.messageBuffer
             r == TryObject(w, SubSeq(buf, startIndex, pos[p].piece),
                            SubSeq(buf, pos[p].piece + 1, Len(buf)))
         IN IF r.processed THEN r ELSE ScanBraces(r.w, pos, p + 1, 0, 0)
  ELSE ScanBraces(w, pos, p + 1, startIndex, braceCount - 1)

\* tryParseJSONActions()
TryParseJSONActions(w) ==
  ScanBraces(w, BracePositions(w.inst.messageBuffer, 1), 1, 0, 0)

\* isDirectJSONAction(text); the history gets the action it has executed.
IsDirectJSONAction(w, text) ==
  LET data == JsonParse(text)
      no(v) == [w |-> v, processed |-> FALSE]
      yes(r, kind) == IF r.processed
                        THEN [r EXCEPT !.w.inst.executed =
                                Append(@, [from |-> w.inst.received, to |-> w.inst.received,
                                           by |-> "direct", kind |-> kind])]
                        ELSE r
      nested == IF data.result # "" /\ ~w.inst.processingButton
                  THEN LET innerData == JsonParse(data.result) IN
                       IF innerData.ok /\ IsClick(innerData)
                         THEN ExecuteClick(w, innerData) ELSE no(w)
                  ELSE no(w)
  IN IF ~data.ok THEN no(w)
     ELSE IF nested.processed THEN yes(nested, "click")
     ELSE IF IsClick(data) /\ ~nested.w.inst.processingButton
       THEN yes(ExecuteClick(nested.w, data), "click")
     ELSE IF data.action = "scan_webpage"
       THEN yes([w |-> ScanWebpage(nested.w), processed |-> TRUE], "scan")
     ELSE no(nested.w)

\* isSystemActionMessage(text): one of the patterns matches.
IsSystemActionMessage(text) == text \in SystemTexts

\* message.data.trim()
TrimData(data) == IF data = " there" THEN "there" ELSE data

\* container.querySelector for an id: the first child with it, 0 = null.
QuerySelectorId(dom, id) ==
  LET hits == {k \in DOMAIN dom.children : dom.children[k].id = id}
  IN IF hits = {} THEN 0 ELSE CHOOSE k \in hits : \A j \in hits : k <= j

\* The bubble's text div gets the data: textDiv.textContent += message.data
AppendText(dom, k, data) == [dom EXCEPT !.children[k].text = Append(@, data)]

\* The chat part of the speech tool's handleSSEMessage: the bubble of the
\* turn is created with a new id when there is none, is looked up with
\* querySelector(`#${this.currentMessageId}`) and gets the data; an id that
\* makes no selector raises a SyntaxError, which ends the handler in
\* onmessage's catch.
SpeechChatChunk(w, data, id) ==
  LET made == IF w.inst.currentMessageId = NullId
                THEN [w EXCEPT !.inst.currentMessageId = id,
                               !.inst.ids = @ + 1,
                               !.dom = AddChatMessage(@, <<>>, "agent", id)]
                ELSE w
      seen == [made EXCEPT !.inst.turn = Append(@, data)]
      k == QuerySelectorId(seen.dom, seen.inst.currentMessageId)
      put == [seen EXCEPT !.inst.shown = IF seen.dom.present THEN @ \cup {w.inst.received}
                                          ELSE @]
  IN IF ~ValidIdSelector(seen.inst.currentMessageId) THEN seen
     ELSE IF k # 0 THEN [put EXCEPT !.dom = AppendText(@, k, data)]
     ELSE [put EXCEPT !.dom = AddChatMessage(@, <<data>>, "agent", NullId)]

\* The mutant of handleSSEMessage: isDirectJSONAction is called whatever
\* tryParseJSONActions has returned.
SpeechHandleSSEMessage_AlwaysDirect(w, message, id) ==
  IF message.kind = "turn_complete"
    THEN [w EXCEPT !.inst.currentMessageId = NullId, !.inst.messageBuffer = <<>>,
                   !.inst.turn = <<>>, !.inst.bufferNos = <<>>]
  ELSE IF message.kind # "text/plain" THEN w
  ELSE LET buffered == [w EXCEPT !.inst.messageBuffer = Append(@, message.data),
                                 !.inst.bufferNos = Append(@, w.inst.received),
                                 !.inst.blocked = IF w.inst.processingButton
                                                    THEN @ \cup {w.inst.received} ELSE @]
           parsed == TryParseJSONActions(buffered)
           text == TrimData(message.data)
           direct == IsDirectJSONAction(parsed.w, text)
       IN IF parsed.processed \/ direct.processed THEN direct.w
          ELSE IF IsSystemActionMessage(text)
            THEN [direct.w EXCEPT !.dom = AddSystemMessage(@, <<text>>, "info")]
          ELSE SpeechChatChunk(direct.w, message.data, id)

\* handleSSEMessage(message) of the speech tool; the audio player is not
\* part of the model.
SpeechHandleSSEMessage(w, message, id) ==
  IF message.kind = "turn_complete"
    THEN [w EXCEPT !.inst.currentMessageId = NullId, !.inst.messageBuffer = <<>>,
                   !.inst.turn = <<>>, !.inst.bufferNos = <<>>]
  ELSE IF message.kind # "text/plain" THEN w
  ELSE LET buffered == [w EXCEPT !.inst.messageBuffer = Append(@, message.data),
                                 !.inst.bufferNos = Append(@, w.inst.received),
                                 !.inst.blocked = IF w.inst.processingButton
                                                    THEN @ \cup {w.inst.received} ELSE @]
           parsed == TryParseJSONActions(buffered)
           text == TrimData(message.data)
           direct == IsDirectJSONAction(parsed.w, text)
       IN IF parsed.processed THEN parsed.w
          ELSE IF direct.processed THEN direct.w
          ELSE IF IsSystemActionMessage(text)
            THEN [direct.w EXCEPT !.dom = AddSystemMessage(@, <<text>>, "info")]
          ELSE SpeechChatChunk(direct.w, message.data, id)

\* The mutant of the search tool's handleSSEMessage: turn_complete leaves
\* currentMessageId as it is.
SearchHandleSSEMessage_KeepId(w, message, id) ==
  IF message.kind = "turn_complete"
    THEN [w EXCEPT !.inst.messageBuffer = <<>>,
                   !.inst.turn = <<>>, !.inst.bufferNos = <<>>,
                   !.dom = UpdateStatus(@, <<"Ready to search this webpage">>, "success")]
  ELSE IF message.kind # "text/plain" THEN w
  ELSE LET buffered == [w EXCEPT !.inst.messageBuffer = Append(@, message.data),
                                 !.inst.bufferNos = Append(@, w.inst.received)]
           made == IF buffered.inst.currentMessageId = NullId
                     THEN [buffered EXCEPT !.inst.currentMessageId = id,
                                           !.inst.ids = @ + 1,
                                           !.dom = AddChatMessage(@, <<>>, "agent", id)]
                     ELSE buffered
           seen == [made EXCEPT !.inst.turn = Append(@, message.data)]
           k == QuerySelectorId(seen.dom, seen.inst.currentMessageId)
       IN IF k # 0 THEN [seen EXCEPT !.dom = AppendText(@, k, message.data)]
          ELSE [seen EXCEPT !.dom = AddChatMessage(@, <<message.data>>, "agent", NullId)]

\* handleSSEMessage(message) of the search tool; the bubble is looked up with
\* querySelector(`[id="${this.currentMessageId}"]`) inside a try.
SearchHandleSSEMessage(w, message, id) ==
  IF message.kind = "turn_complete"
    THEN [w EXCEPT !.inst.currentMessageId = NullId, !.inst.messageBuffer = <<>>,
                   !.inst.turn = <<>>, !.inst.bufferNos = <<>>,
                   !.dom = UpdateStatus(@, <<"Ready to search this webpage">>, "success")]
  ELSE IF message.kind # "text/plain" THEN w
  ELSE LET buffered == [w EXCEPT !.inst.messageBuffer = Append(@, message.data),
                                 !.inst.bufferNos = Append(@, w.inst.received)]
           made == IF buffered.inst.currentMessageId = NullId
                     THEN [buffered EXCEPT !.inst.currentMessageId = id,
                                           !.inst.ids = @ + 1,
                                           !.dom = AddChatMessage(@, <<>>, "agent", id)]
                     ELSE buffered
           seen == [made EXCEPT !.inst.turn = Append(@, message.data)]
           k == QuerySelectorId(seen.dom, seen.inst.currentMessageId)
       IN IF k # 0 THEN [seen EXCEPT !.dom = AppendText(@, k, message.data)]
          ELSE [seen EXCEPT !.dom = AddChatMessage(@, <<message.data>>, "agent", NullId)]

\* ---------------------------------------------------------------------------
\* Chat tool actions: messages, commands, queries
\* ---------------------------------------------------------------------------
\* What a handler of instance c runs on, and what it leaves.
World(c) ==
  [inst |-> chatInsts[c],
   dom |-> IF chatInsts[c].tool = "speech_to_instructions" THEN speech ELSE search,
   page |-> chatHist]

Charged(w) == [w EXCEPT !.page.events = @ + 1]

Commit(c, w) ==
  /\ chatInsts' = [chatInsts EXCEPT ![c] = w.inst]
  /\ IF chatInsts[c].tool = "speech_to_instructions"
       THEN speech' = w.dom /\ UNCHANGED search
       ELSE search' = w.dom /\ UNCHANGED speech
  /\ chatHist' = w.page

\* The ids the next bubble of instance c can get.
MessageIds(c) ==
  IF chatInsts[c].tool = "speech_to_instructions"
    THEN SpeechMessageIds(c, chatInsts[c].ids + 1)
    ELSE SearchMessageIds(c, chatInsts[c].ids + 1)

\* eventSource.onmessage of EventSource k of instance c: JSON.parse and
\* handleSSEMessage inside a try.
OnMessage(c, k, message, id) ==
  /\ chatInsts[c].conns[k].state = "open"
  /\ MoreEvents
  /\ LET w == Charged([World(c) EXCEPT !.inst.received = @ + 1]) IN
     Commit(c, IF message.kind = "malformed" THEN w
               ELSE IF chatInsts[c].tool = "speech_to_instructions"
                 THEN SpeechHandleSSEMessage(w, message, id)
                 ELSE SearchHandleSSEMessage(w, message, id))
  /\ ChatFrame

\* A timer set after a click action fires: processingButton = false.
FireFlagTimer(c) ==
  /\ chatInsts[c].flagTimers > 0
  /\ chatInsts' = [chatInsts EXCEPT ![c] =
                     [@ EXCEPT !.flagTimers = @ - 1, !.processingButton = FALSE]]
  /\ DomFrame
  /\ NoEvent
  /\ ChatFrame

\* The texts the user types into the chat tools' inputs, trimmed and non-empty.
UserTexts == {"go"}

\* Enter or a click on #send-text-btn with a text in #speech-text-input:
\* sendTextCommand(text) up to the await of sendScanResults.
SendTextCommand(c, text) ==
  /\ Shown(c)
  /\ chatInsts[c].tool = "speech_to_instructions"
  /\ ~chatInsts[c].isAudioMode
  /\ MoreEvents
  /\ LET w == Charged(World(c))
         told == [w EXCEPT !.dom = AddSystemMessage(@, <<"Scanning...">>, "info"),
                           !.inst.commands = @ + 1]
     IN Commit(c, SendScanResults(told, "sendTextCommand", text))
  /\ ChatFrame

\* The mutant of sendScanResults: a rejected fetch is thrown on, and
\* sendTextCommand ends in its catch.
ScanPostSettle_Rethrow(c, j, o) ==
  /\ chatInsts[c].posts[j].pc = "scan"
  /\ MoreEvents
  /\ LET w == Charged(World(c))
         told == IF o = "reject"
                   THEN [w EXCEPT !.dom = AddSystemMessage(
                                            @, <<"Error sending scan results: ", "msg">>,
                                            "error")]
                   ELSE w
     IN Commit(c, IF w.inst.posts[j].fn = "sendTextCommand" /\ o # "reject"
                    THEN [told EXCEPT !.inst.posts[j].pc = "wait",
                                      !.inst.posts[j].delay = CommandDelay]
                    ELSE [told EXCEPT !.inst.posts = RemoveAt(@, j)])
  /\ ChatFrame

\* The POST of sendScanResults settles; its catch reports a rejected fetch.
\* A sendTextCommand that awaited it goes on to wait for 500 ms.
ScanPostSettle(c, j, o) ==
  /\ chatInsts[c].posts[j].pc = "scan"
  /\ MoreEvents
  /\ LET w == Charged(World(c))
         told == IF o = "reject"
                   THEN [w EXCEPT !.dom = AddSystemMessage(
                                            @, <<"Error sending scan results: ", "msg">>,
                                            "error")]
                   ELSE w
     IN Commit(c, IF w.inst.posts[j].fn = "sendTextCommand"
                    THEN [told EXCEPT !.inst.posts[j].pc = "wait",
                                      !.inst.posts[j].delay = CommandDelay]
                    ELSE [told EXCEPT !.inst.posts = RemoveAt(@, j)])
  /\ ChatFrame

\* The 500 ms are over: sendTextCommand issues the POST of the command.
CommandDelayDone(c, j) ==
  /\ chatInsts[c].posts[j].pc = "wait"
  /\ chatInsts' = [chatInsts EXCEPT ![c].posts[j].pc = "command",
                                    ![c].posts[j].delay = 0,
                                    ![c].commandPosts = @ + 1]
  /\ DomFrame
  /\ NoEvent
  /\ ChatFrame

\* The POST of the command settles: the rest of sendTextCommand.
CommandSettle(c, j, o) ==
  /\ chatInsts[c].posts[j].pc = "command"
  /\ MoreEvents
  /\ LET w == Charged(World(c))
         text == w.inst.posts[j].text
         shown == CASE o = "ok" -> [w EXCEPT !.dom = AddChatMessage(@, <<text>>, "user", NullId)]
                    [] o = "reject" -> [w EXCEPT !.dom = AddSystemMessage(
                                                          @, <<"Error: ", "msg">>, "error")]
                    [] OTHER -> w
     IN Commit(c, [shown EXCEPT !.inst.posts = RemoveAt(@, j)])
  /\ ChatFrame

\* Enter or a click on the send button with a text in #search-text-input:
\* sendSearchQuery(text) up to its await.
SendSearchQuery(c, text) ==
  /\ Shown(c)
  /\ chatInsts[c].tool = "semantic_search"
  /\ MoreEvents
  /\ LET w == Charged(World(c))
         shown == [w EXCEPT !.dom = UpdateStatus(AddChatMessage(@, <<text>>, "user", NullId),
                                                 <<"Searching...">>, "loading"),
                            !.inst.commands = @ + 1]
     IN Commit(c, [shown EXCEPT !.inst.posts = Append(@, Waiting("sendSearchQuery", "post",
                                                                 text))])
  /\ ChatFrame

\* The POST of sendSearchQuery settles: the rest of sendSearchQuery.
SearchSettle(c, j, o) ==
  /\ chatInsts[c].posts[j].fn = "sendSearchQuery"
  /\ MoreEvents
  /\ LET w == Charged(World(c))
         shown == IF o = "reject"
                    THEN [w EXCEPT !.dom = UpdateStatus(@, <<"Error: ", "msg">>, "error")]
                    ELSE w
     IN Commit(c, [shown EXCEPT !.inst.posts = RemoveAt(@, j)])
  /\ ChatFrame

\* The second setTimeout of the search tool's setupEventListeners fires, 100 ms
\* after the first: extractWebsiteContent() up to the await in
\* sendWebsiteContentToAgent.
FireExtractTimer(c) ==
  /\ c \in DOMAIN chatInsts
  /\ chatInsts[c].extractTimer # <<>>
  /\ chatInsts[c].initTimer = <<>>
  /\ chatInsts' = [chatInsts EXCEPT ![c] =
                     [@ EXCEPT !.extractTimer = <<>>,
                               !.posts = Append(@, Waiting("sendWebsiteContentToAgent",
                                                           "post", ""))]]
  /\ search' = UpdateStatus(UpdateStatus(search, <<"Extracting webpage content...">>,
                                         "loading"),
                            <<"Ready to search this webpage">>, "success")
  /\ UNCHANGED speech
  /\ NoEvent
  /\ ChatFrame

\* The POST of sendWebsiteContentToAgent settles.
ContentPostSettle(c, j, o) ==
  /\ chatInsts[c].posts[j].fn = "sendWebsiteContentToAgent"
  /\ MoreEvents
  /\ chatInsts' = [chatInsts EXCEPT ![c].posts = RemoveAt(@, j)]
  /\ IF o = "reject"
       THEN Tell(c, <<"Error sending content to agent">>, "error")
       ELSE DomFrame
  /\ Event
  /\ ChatFrame

ParkedPopup ==
  /\ popupTool = "ai_alt_text"
  /\ popupHasResult = TRUE
  /\ popup = [disabled |-> FALSE, cls |-> "result", text |-> <<>>, pc |-> "idle"]
  /\ popupHist = [clicks |-> 0, requests |-> 0, inflight |-> 0, last |-> NoRun, form |-> "x"]

SseInit ==
  /\ chatInsts = <<>>

\* The tool panel has not been created; the page has a button.
MsgInit ==
  /\ speech = NoSpeechContent
  /\ search = NoSearchContent
  /\ chatHist = [buttons |-> 1, clicked |-> 0, events |-> 0]

\* No function has been called on the document, which is left out.
NoCall == [fn |-> "none"]
DocInit ==
  /\ doc = <<>>
  /\ ret = NoCall

\* The popup: one tool class, its button and its result element.
InitPopup == PopupInit /\ MgrInit /\ SelInit /\ SseInit /\ MsgInit /\ DocInit

NextPopup ==
  \/ \E form \in FormInputs : PopupClick(form)
  \/ \E o \in PopupOutcomes : PopupSettle(o)

SpecPopup == InitPopup /\ [][NextPopup]_vars

\* ---------------------------------------------------------------------------
\* Properties of the popup tools (SpecPopup)
\* ---------------------------------------------------------------------------
\* The last run failed: its input was refused, fetch rejected, the status was
\* not OK, or the body said success=false.
LastRunFailed ==
  LET o == popupHist.last IN
  \/ o.kind \in {"invalid_input", "reject"}
  \/ o.kind = "response" /\ ~o.ok
  \/ o.kind = "response" /\ o.json = "object" /\ o.success = "false"

\* The last run got an OK response whose JSON body has success=true.
LastRunSucceeded ==
  LET o == popupHist.last IN
  o.kind = "response" /\ o.ok /\ o.json = "object" /\ o.success = "true"

\* C1: for every popup tool, a run of process() that found its elements and
\* failed (invalid input, fetch rejected, status not OK, success=false) ends
\* with class 'result error', a text starting with 'Error: ' and the button
\* enabled; no finished run leaves the result in the loading state.
C1_FailureShowsError ==
  popup.pc = "idle" =>
    /\ popup.cls # "result loading"
    /\ LastRunFailed =>
         /\ popup.cls = "result error"
         /\ Len(popup.text) >= 1 /\ popup.text[1] = "Error: "
         /\ ~popup.disabled

\* C1 witness: a run that got a non-OK status has ended in the error display.
C1_Witness ==
  /\ popup.pc = "idle"
  /\ popupHist.last.kind = "response" /\ ~popupHist.last.ok
  /\ popup.cls = "result error" /\ ~popup.disabled

\* C9: for every popup tool, a completed run of process() ends with class
\* 'result success' and the text of data.message exactly when the response is
\* OK and its JSON body has success=true; every other completed run ends with
\* class 'result error'.
C9_SuccessIffOkAndSuccess ==
  (popup.pc = "idle" /\ popupHist.last.kind # "none") =>
    IF LastRunSucceeded
      THEN popup.cls = "result success" /\ popup.text = TextOf(popupHist.last.message)
      ELSE popup.cls = "result error"

\* C9 witness: a run with an OK response and success=true has ended in the
\* success display with the message.
C9_Witness ==
  /\ popup.pc = "idle"
  /\ LastRunSucceeded
  /\ popup.cls = "result success" /\ popup.text = <<"msg">>

\* The floating toolbar with the tools in `tools` on offer.
ManagerNext(tools) ==
  \/ \E t \in tools : OpenTool(t)
  \/ BackClick
  \/ TogglePanel
  \/ HeaderClick

SelectionNext(limit) ==
  \/ SelectBtnClick
  \/ \E i \in DOMAIN selInsts : \E el \in selInsts[i].listeners : ElementClick(i, el)
  \/ ActionBtnClick(limit)

InitToolbar == ParkedPopup /\ MgrInit /\ SelInit /\ SseInit /\ MsgInit /\ DocInit

\* The alt-text tool and the CSS tool.
NextAlt ==
  \/ ManagerNext({"ai_alt_text", "adaptive_css"})
  \/ SelectionNext(MaxGenerate)
  \/ \E i \in DOMAIN selInsts : \E k \in DOMAIN selInsts[i].reqs :
       \E o \in SelOutcomes : GenerateSettle(i, k, o)

SpecAlt == InitToolbar /\ [][NextAlt]_vars

\* ---------------------------------------------------------------------------
\* Properties of the floating alt-text tool (SpecAlt)
\* ---------------------------------------------------------------------------
\* C4: in the floating alt-text tool, a click on an image while selection mode
\* is on (entered with the select-photo button) leaves selectedImage referring
\* to that image with its URL, selection mode off, the listeners removed from
\* the images, the preview shown with that URL, and the generate button enabled.
C4_ImageClickSelects ==
  [][\A i \in DOMAIN selInsts : \A el \in Images :
       (/\ selInsts[i].tool = "ai_alt_text"
        /\ selInsts[i].isSelectingMode
        /\ ElementClick(i, el))
       => /\ selInsts'[i].selected = el
          /\ selInsts'[i].selUrl = ImgSrc(el)
          /\ ~selInsts'[i].isSelectingMode
          /\ selInsts'[i].listeners \cap Images = {}
          /\ selInsts'[i].infoShown
          /\ selInsts'[i].preview = ImgSrc(el)
          /\ ~selInsts'[i].btnDisabled]_vars

\* C4 witness: the open alt-text tool holds a selected image, with selection
\* mode off, no listener left, the preview showing its URL and the button enabled.
C4_Witness ==
  \E i \in DOMAIN selInsts :
    /\ Attached(i) /\ currentTool = "ai_alt_text" /\ aiAltTextState = i
    /\ selInsts[i].selected = 2
    /\ ~selInsts[i].isSelectingMode
    /\ selInsts[i].listeners = {}
    /\ selInsts[i].infoShown /\ selInsts[i].preview = ImgSrc(2)
    /\ ~selInsts[i].btnDisabled

\* C6: in the floating alt-text tool, a generate request that failed (fetch
\* rejected, status not OK, success=false) ends with class 'result error' and
\* the generate button enabled, and class 'result success' is shown only for a
\* response that carries a generated alt text.
C6_FailedGenerateShowsError ==
  [][\A i \in DOMAIN selInsts : \A k \in DOMAIN selInsts[i].reqs : \A o \in SelOutcomes :
       (Attached(i) /\ GenerateSettle(i, k, o))
       => /\ OutcomeClass(o) = "failed" =>
               selInsts'[i].resCls = "result error" /\ ~selInsts'[i].btnDisabled
          /\ selInsts'[i].resCls = "result success" => OutcomeClass(o) = "generated"]_vars

\* C10: a tool action button stays disabled from its accepted click until the
\* request settles, so no button has more than one request in flight, and the
\* requests issued never exceed the accepted clicks.
C10_OneRequestPerButton ==
  /\ \A i \in DOMAIN selInsts : Len(selInsts[i].reqs) <= 1
  /\ popupHist.inflight <= 1
  /\ popupHist.requests <= popupHist.clicks

\* Both selection tools and the CSS tool.
NextSelect ==
  \/ ManagerNext(SelTools \cup {"adaptive_css"})
  \/ SelectionNext(MaxInflight)
  \/ \E i \in DOMAIN selInsts : \E k \in DOMAIN selInsts[i].reqs :
       \E o \in SelOutcomes : GenerateSettle(i, k, o)
  \/ \E i \in DOMAIN selInsts : \E k \in DOMAIN selInsts[i].reqs :
       \E o \in SelOutcomes : SimplifySettle(i, k, o)

SpecSelect == InitToolbar /\ [][NextSelect]_vars

\* ---------------------------------------------------------------------------
\* Properties of the selection tools under the manager (SpecSelect)
\* ---------------------------------------------------------------------------
\* C5: whenever no tool is open (currentTool is null), every alt-text and
\* text-simplification instance has no selection, selection mode off and no
\* listener on an element of the page, and the manager's
\* textSimplificationState and aiAltTextState are null.
C5_NoSelectionWhenClosed ==
  currentTool = Null =>
    /\ textSimplificationState = 0
    /\ aiAltTextState = 0
    /\ \A i \in DOMAIN selInsts :
         /\ selInsts[i].selected = 0
         /\ ~selInsts[i].isSelectingMode
         /\ selInsts[i].listeners \cap Selectable(selInsts[i], page) = {}

\* C5 witness: a tool was closed while a request for its selection was in
\* flight; its selection is gone.
C5_Witness ==
  /\ currentTool = Null
  /\ \E i \in DOMAIN selInsts :
       /\ Attached(i)
       /\ selInsts[i].reqs # <<>>
       /\ selInsts[i].selected = 0

\* ---------------------------------------------------------------------------
\* The chat tools under the manager
\* ---------------------------------------------------------------------------
ConnectionNext ==
  \/ \E c \in DOMAIN chatInsts : FireInitTimer(c)
  \/ \E c \in DOMAIN chatInsts : \E k \in DOMAIN chatInsts[c].conns : SSEOpen(c, k)
  \/ \E c \in DOMAIN chatInsts : \E k \in DOMAIN chatInsts[c].conns :
       \E fatal \in BOOLEAN : SSEError(c, k, fatal)
  \/ \E c \in DOMAIN chatInsts : FireReconnect(c)
  \/ \E c \in DOMAIN chatInsts : ToggleMode(c)
  \/ \E c \in DOMAIN chatInsts : FireExtractTimer(c)
  \/ \E c \in DOMAIN chatInsts : \E j \in DOMAIN chatInsts[c].posts :
       \E o \in PostOutcomes : ContentPostSettle(c, j, o)

AudioNext ==
  \/ \E c \in DOMAIN chatInsts : \E started \in BOOLEAN : StartAudioRecording(c, started)
  \/ \E c \in DOMAIN chatInsts : AudioRecorderHandler(c)
  \/ \E c \in DOMAIN chatInsts : BufferTick(c)
  \/ \E c \in DOMAIN chatInsts : \E rejected \in BOOLEAN : AudioSendSettle(c, rejected)
  \/ \E c \in DOMAIN chatInsts : StopAudioRecording(c)

\* A chat tool that has just been opened: openTool(t) from the expanded grid.
JustOpened(t) ==
  /\ ParkedPopup /\ SelInit /\ DocInit
  /\ speech = IF t = "speech_to_instructions" THEN SpeechContent ELSE NoSpeechContent
  /\ search = IF t = "semantic_search" THEN SearchContent ELSE NoSearchContent
  /\ chatHist = [buttons |-> 1, clicked |-> 0, events |-> 0]
  /\ isExpanded = TRUE
  /\ currentTool = t
  /\ textSimplificationState = 0
  /\ aiAltTextState = 0
  /\ panelOwner = [cls |-> "chat", idx |-> 1]
  /\ chatInsts = <<NewChat(t)>>

\* One chat tool instance, its connections and its reconnect timers; the panel
\* can be closed and the CSS tool opened over it.  A pending reconnect timer
\* fires.
InitReconnect == \E t \in ChatTools : JustOpened(t)

NextReconnect ==
  \/ ManagerNext({"adaptive_css"})
  \/ ConnectionNext

SpecReconnect ==
  /\ InitReconnect
  /\ [][NextReconnect]_vars
  /\ WF_vars(FireReconnect(1))

\* The speech tool as it is once the user has opened it, switched it to audio
\* mode and started recording, with its connection open: the fields after
\* openTool, the initial timer, toggleMode, the open event and
\* startAudioRecording, in this order.
RecordingSpeech ==
  LET opened == NewChat("speech_to_instructions")
      connected == ConnectSSE([opened EXCEPT !.initTimer = <<>>])
      toggled == ConnectSSE([connected EXCEPT
                               !.isAudioMode = TRUE,
                               !.conns = [@ EXCEPT ![1].state = "closed"]])
      open == [toggled EXCEPT !.conns = [@ EXCEPT ![1].state = "open"]]
  IN [open EXCEPT !.mic = "live"]

InitClose ==
  /\ ParkedPopup /\ SelInit /\ DocInit
  /\ speech = AddSystemMessage(
                AudioButtons(
                  AddSystemMessage(SpeechContent, <<"Connected to speech commands">>,
                                   "success"),
                  FALSE, TRUE),
                <<"Audio recording started">>, "success")
  /\ search = NoSearchContent
  /\ chatHist = [buttons |-> 1, clicked |-> 0, events |-> 0]
  /\ isExpanded = TRUE
  /\ currentTool = "speech_to_instructions"
  /\ textSimplificationState = 0
  /\ aiAltTextState = 0
  /\ panelOwner = [cls |-> "chat", idx |-> 1]
  /\ chatInsts = <<RecordingSpeech>>

\* The chat tools under the manager from there on: connections, timers, audio,
\* closing and opening.
NextClose ==
  \/ ManagerNext(ChatTools)
  \/ ConnectionNext
  \/ AudioNext

SpecClose == InitClose /\ [][NextClose]_vars

\* The same from the toolbar as constructed.
SpecSSE == InitToolbar /\ [][NextClose]_vars

\* ---------------------------------------------------------------------------
\* The chat tools in use
\* ---------------------------------------------------------------------------
MessageNext ==
  \/ \E c \in DOMAIN chatInsts : \E k \in DOMAIN chatInsts[c].conns :
       \E message \in Messages : \E id \in MessageIds(c) : OnMessage(c, k, message, id)
  \/ \E c \in DOMAIN chatInsts : FireFlagTimer(c)

SendNext ==
  \/ \E c \in DOMAIN chatInsts : \E text \in UserTexts : SendTextCommand(c, text)
  \/ \E c \in DOMAIN chatInsts : \E j \in DOMAIN chatInsts[c].posts :
       \E o \in PostOutcomes : ScanPostSettle(c, j, o)
  \/ \E c \in DOMAIN chatInsts : \E j \in DOMAIN chatInsts[c].posts : CommandDelayDone(c, j)
  \/ \E c \in DOMAIN chatInsts : \E j \in DOMAIN chatInsts[c].posts :
       \E o \in PostOutcomes : CommandSettle(c, j, o)
  \/ \E c \in DOMAIN chatInsts : \E text \in UserTexts : SendSearchQuery(c, text)
  \/ \E c \in DOMAIN chatInsts : \E j \in DOMAIN chatInsts[c].posts :
       \E o \in PostOutcomes : SearchSettle(c, j, o)
  \/ \E c \in DOMAIN chatInsts : FireExtractTimer(c)
  \/ \E c \in DOMAIN chatInsts : \E j \in DOMAIN chatInsts[c].posts :
       \E o \in PostOutcomes : ContentPostSettle(c, j, o)

\* A chat tool as it is once it has been opened and its connection is open:
\* the fields after openTool, the initial timer and the open event.
ConnectedChat(t) ==
  LET started == ConnectSSE([NewChat(t) EXCEPT !.initTimer = <<>>])
  IN [started EXCEPT !.conns = [@ EXCEPT ![1].state = "open"]]

\* One chat tool, open and connected, on a page with or without a button:
\* the agent sends messages, the user sends texts.
InitChat ==
  \E t \in ChatTools : \E buttons \in 0..1 :
    /\ ParkedPopup /\ SelInit /\ DocInit
    /\ isExpanded = TRUE
    /\ currentTool = t
    /\ textSimplificationState = 0
    /\ aiAltTextState = 0
    /\ panelOwner = [cls |-> "chat", idx |-> 1]
    /\ chatInsts = <<ConnectedChat(t)>>
    /\ speech = IF t = "speech_to_instructions"
                  THEN AddSystemMessage(SpeechContent, <<"Connected to speech commands">>,
                                        "success")
                  ELSE NoSpeechContent
    /\ search = IF t = "semantic_search"
                  THEN UpdateStatus(SearchContent, <<"Connected to search agent">>, "success")
                  ELSE NoSearchContent
    /\ chatHist = [buttons |-> buttons, clicked |-> 0, events |-> 0]

NextChat ==
  \/ MessageNext
  \/ SendNext

SpecChat == InitChat /\ [][NextChat]_vars

\* ---------------------------------------------------------------------------
\* Properties of the chat tools' connections (SpecReconnect, SpecClose)
\* ---------------------------------------------------------------------------
\* C2: in the speech and the search tool every error event of an SSE connection
\* schedules exactly one connectSSE call, 5 seconds later: each error adds one
\* timer of 5000 ms and nothing else, every pending timer has that same delay,
\* the errors are the timers pending plus the calls made, and after n errors
\* the n-th call is eventually made.
C2_ReconnectAfterEveryError ==
  /\ [][\A c \in DOMAIN chatInsts : \A k \in DOMAIN chatInsts[c].conns :
          \A fatal \in BOOLEAN :
            SSEError(c, k, fatal) =>
              /\ chatInsts'[c].reconnects = Append(chatInsts[c].reconnects, 5000)
              /\ chatInsts'[c].connects = chatInsts[c].connects]_vars
  /\ [](\A c \in DOMAIN chatInsts :
          /\ \A j \in DOMAIN chatInsts[c].reconnects : chatInsts[c].reconnects[j] = 5000
          /\ chatInsts[c].errors = Len(chatInsts[c].reconnects) + chatInsts[c].connects)
  /\ \A n \in 1..MaxEvents :
       (chatInsts[1].errors >= n) ~> (chatInsts[1].connects >= n)

\* C2 witness: after two drops of its connections, the instance has made two
\* reconnect calls and holds a connection again.
C2_Witness ==
  /\ chatInsts[1].errors = 2
  /\ chatInsts[1].connects = 2
  /\ chatInsts[1].reconnects = <<>>
  /\ chatInsts[1].conns[EventSourceOf(chatInsts[1])].state = "open"

\* C8: a step of closeTool (currentTool becomes null) changes no field of any
\* speech or search instance: connections, reconnect timers, buffer timer and
\* microphone stream stay as they are; and openTool leaves the instances that
\* exist as they are.
C8_CloseToolLeavesResources ==
  /\ [][(currentTool # Null /\ currentTool' = Null) => chatInsts' = chatInsts]_vars
  /\ [][\A t \in ToolIds : OpenTool(t) =>
          SubSeq(chatInsts', 1, Len(chatInsts)) = chatInsts]_vars

\* C8 witness: the speech tool was closed and opened again as a new instance;
\* the closed instance holds an open connection, a pending reconnect timer, its
\* buffer timer and a live microphone stream.
C8_Witness ==
  /\ currentTool = "speech_to_instructions"
  /\ Len(chatInsts) = 2
  /\ Shown(2)
  /\ chatInsts[1].tool = "speech_to_instructions"
  /\ \E k \in DOMAIN chatInsts[1].conns : chatInsts[1].conns[k].state = "open"
  /\ chatInsts[1].reconnects = <<SpeechReconnectDelay>>
  /\ chatInsts[1].bufferTimer = BufferInterval
  /\ chatInsts[1].mic = "live"

\* ---------------------------------------------------------------------------
\* Properties of the chat tools' messages and texts (SpecChat)
\* ---------------------------------------------------------------------------
\* C3: in the speech tool the text/plain chunks of a turn that trigger no
\* action and match no system pattern all end up, in arrival order, in one
\* agent bubble: whenever such chunks have been received since the last
\* turn_complete, the chat has the bubble of the turn, with the current
\* message id, whatever id was generated, and its text is the concatenation of
\* these chunks.
C3_ChunksInOneBubble ==
  \A c \in DOMAIN chatInsts :
    (chatInsts[c].tool = "speech_to_instructions" /\ chatInsts[c].turn # <<>>) =>
      \E k \in DOMAIN speech.children :
        /\ speech.children[k].cls = "agent"
        /\ speech.children[k].id = chatInsts[c].currentMessageId
        /\ speech.children[k].text = chatInsts[c].turn

\* C7: when the POST of a user's text fails, by a rejected fetch or by a
\* response with a non-OK status, the error is shown: after the POST of
\* sendTextCommand has settled so, the speech chat has the error line; after
\* the POST of sendSearchQuery has settled so, the search status is an error.
C7_FailedPostShowsError ==
  [][\A c \in DOMAIN chatInsts : \A j \in DOMAIN chatInsts[c].posts :
       \A o \in {"status", "reject"} :
         /\ CommandSettle(c, j, o) =>
              \E line \in speech'.lines : line.type = "error" /\ line.text[1] = "Error: "
         /\ SearchSettle(c, j, o) => search'.status.type = "error"]_vars

\* ---------------------------------------------------------------------------
\* The chat tools in use under the manager
\* ---------------------------------------------------------------------------
\* One chat tool, open and connected; the agent sends messages, the user sends
\* texts, closes the panel and opens a chat tool again.
NextPanel ==
  \/ ManagerNext(ChatTools)
  \/ \E c \in DOMAIN chatInsts : FireInitTimer(c)
  \/ \E c \in DOMAIN chatInsts : \E k \in DOMAIN chatInsts[c].conns : SSEOpen(c, k)
  \/ NextChat

SpecPanel == InitChat /\ [][NextPanel]_vars

\* ---------------------------------------------------------------------------
\* Properties of the search tool's messages (SpecPanel)
\* ---------------------------------------------------------------------------
\* C11: in the search tool the text/plain chunks received since the last
\* turn_complete are all, in arrival order, in one agent bubble: the chat has
\* the bubble with the current message id and its text is the concatenation of
\* the chunks' data; and a turn_complete leaves the status 'Ready to search
\* this webpage'.
C11_SearchChunksInOneBubble ==
  /\ [](\A c \in DOMAIN chatInsts :
          (chatInsts[c].tool = "semantic_search" /\ chatInsts[c].turn # <<>>) =>
            \E k \in DOMAIN search.children :
              /\ search.children[k].cls = "agent"
              /\ search.children[k].id = chatInsts[c].currentMessageId
              /\ search.children[k].text = chatInsts[c].turn)
  /\ [][\A c \in DOMAIN chatInsts : \A k \in DOMAIN chatInsts[c].conns :
          \A id \in MessageIds(c) :
            (chatInsts[c].tool = "semantic_search"
               /\ OnMessage(c, k, [kind |-> "turn_complete", data |-> ""], id)) =>
              search'.status.text = <<"Ready to search this webpage">>]_vars

\* ---------------------------------------------------------------------------
\* Properties of the speech tool's click actions (SpecChat)
\* ---------------------------------------------------------------------------
\* C12: whenever processingButton is true, the timer that resets it one second
\* later is pending, whatever handleButtonAction did with the elementId
\* received: the flag never stays set with nothing left to reset it.
C12_FlagResetPending ==
  \A c \in DOMAIN chatInsts :
    chatInsts[c].processingButton => chatInsts[c].flagTimers > 0

\* C13: no click action whose JSON was received while processingButton was
\* true ever clicks the page: of the click actions executed on a page that has
\* a button, none arrived while the flag was true, be it executed by the step
\* that received it or by a later step of the turn that scans the buffer again.
C13_BlockedClickNeverRuns ==
  \A c \in DOMAIN chatInsts : \A i \in DOMAIN chatInsts[c].executed :
    (chatHist.buttons > 0 /\ chatInsts[c].executed[i].kind = "click") =>
      chatInsts[c].executed[i].to \notin chatInsts[c].blocked

\* C14: handleButtonAction runs to its end, and the page is clicked, only when
\* an instance handles a message in a step that starts with processingButton false and no reset timer pending (the
\* second since the click before is over) and that ends with the flag true and
\* its one timer set; an instance never has two reset timers pending.
C14_ClicksOneSecondApart ==
  /\ [](\A c \in DOMAIN chatInsts : chatInsts[c].flagTimers <= 1)
  /\ [][\A c \in DOMAIN chatInsts :
            (/\ c \in DOMAIN chatInsts'
             /\ chatInsts'[c].received # chatInsts[c].received
             /\ \/ chatHist'.clicked # chatHist.clicked
                \/ chatInsts'[c].flagTimers > chatInsts[c].flagTimers) =>
              /\ ~chatInsts[c].processingButton
              /\ chatInsts[c].flagTimers = 0
              /\ chatInsts'[c].processingButton
              /\ chatInsts'[c].flagTimers = 1
              /\ chatHist'.clicked <= chatHist.clicked + 1]_vars

\* C14 witness: the instance has clicked the page twice, the second time after
\* the timer of the first click had fired, and waits for the second timer.
C14_Witness ==
  /\ chatHist.clicked = 2
  /\ chatInsts[1].processingButton
  /\ chatInsts[1].flagTimers = 1

\* C15: an action that tryParseJSONActions has executed is no longer in the
\* buffer, nor is anything received before it: every piece the buffer holds
\* came with a later message; and no received action text is executed twice:
\* the JSON texts of two executed actions never share a message.
C15_ExecutedLeavesBuffer ==
  \A c \in DOMAIN chatInsts :
    LET e == chatInsts[c].executed IN
    /\ \A i \in DOMAIN e : \A j \in DOMAIN chatInsts[c].bufferNos :
         e[i].by = "buffer" => chatInsts[c].bufferNos[j] > e[i].to
    /\ \A i, j \in DOMAIN e : i # j => e[i].to \notin e[j].from..e[j].to

\* C15 witness: a click action that followed a chat chunk in the buffer was
\* executed from the buffer, its timer has fired, and a later chunk has made
\* the buffer be scanned again: the buffer holds that chunk only.
C15_Witness ==
  /\ chatInsts[1].executed = <<[from |-> 2, to |-> 2, by |-> "buffer", kind |-> "click"]>>
  /\ 1 \in chatInsts[1].shown
  /\ ~chatInsts[1].processingButton
  /\ chatInsts[1].bufferNos = <<3>>
  /\ chatHist.clicked = 1

\* C16: a message handled by the speech tool executes at most one action: the
\* step adds at most one action to those executed, and the page clicks and
\* scan POSTs it makes are at most one together, whatever the buffer holds.
C16_OneActionPerMessage ==
  [][\A c \in DOMAIN chatInsts :
       (c \in DOMAIN chatInsts' /\ chatInsts'[c].received # chatInsts[c].received) =>
         /\ Len(chatInsts'[c].executed) <= Len(chatInsts[c].executed) + 1
         /\ (chatHist'.clicked - chatHist.clicked)
              + (Len(chatInsts'[c].posts) - Len(chatInsts[c].posts)) <= 1]_vars

\* C16 witness: the buffer held two complete actions, a click received while
\* the flag was true and a scan request; the message that brought the scan
\* request executed the click only, and the scan request is still in the buffer.
C16_Witness ==
  /\ Len(chatInsts[1].executed) = 2
  /\ chatInsts[1].executed[2].to = 2
  /\ chatInsts[1].received = 3
  /\ chatInsts[1].messageBuffer = <<ScanRequest>>
  /\ chatInsts[1].posts = <<>>
  /\ chatHist.clicked = 2

\* C17: the JSON of an executed action is not in the chat: none of the
\* messages that brought the JSON text of an executed action, be it one
\* message or several chunks, had its data put into an agent bubble.
C17_ExecutedJsonNotInChat ==
  \A c \in DOMAIN chatInsts : \A i \in DOMAIN chatInsts[c].executed :
    \A n \in chatInsts[c].executed[i].from..chatInsts[c].executed[i].to :
      n \notin chatInsts[c].shown

\* ---------------------------------------------------------------------------
\* Properties of the turns of both chat tools (SpecChat)
\* ---------------------------------------------------------------------------
\* C18: a turn_complete empties messageBuffer, with whatever action JSON it
\* still holds, sets currentMessageId to null, and changes no bubble and no
\* system line of the chats; the chat chunk that finds currentMessageId null,
\* the first of a turn, adds one agent bubble with a new id to the chat and
\* leaves the bubbles before it, the one of the previous turn included, as
\* they are.
C18_TurnCompleteStartsNewBubble ==
  /\ [][\A c \in DOMAIN chatInsts : \A k \in DOMAIN chatInsts[c].conns :
          \A id \in MessageIds(c) :
            OnMessage(c, k, [kind |-> "turn_complete", data |-> ""], id) =>
              /\ chatInsts'[c].messageBuffer = <<>>
              /\ chatInsts'[c].bufferNos = <<>>
              /\ chatInsts'[c].currentMessageId = NullId
              /\ chatInsts'[c].executed = chatInsts[c].executed
              /\ speech' = speech
              /\ search'.children = search.children]_vars
  /\ [][\A c \in DOMAIN chatInsts :
          (/\ c \in DOMAIN chatInsts'
           /\ chatInsts'[c].received # chatInsts[c].received
           /\ chatInsts[c].currentMessageId = NullId
           /\ chatInsts'[c].currentMessageId # NullId) =>
            LET old == IF chatInsts[c].tool = "speech_to_instructions"
                         THEN speech.children ELSE search.children
                new == IF chatInsts[c].tool = "speech_to_instructions"
                         THEN speech'.children ELSE search'.children
            IN /\ Len(new) = Len(old) + 1
               /\ SubSeq(new, 1, Len(old)) = old
               /\ new[Len(new)].cls = "agent"
               /\ new[Len(new)].id = chatInsts'[c].currentMessageId
               /\ \A j \in DOMAIN old : old[j].id # new[Len(new)].id \/ old[j].id = EmptyId]_vars

\* C18 witness: the search tool has received a chunk, a turn_complete and a
\* chunk again: each turn has its own bubble.
C18_Witness ==
  /\ chatInsts[1].tool = "semantic_search"
  /\ Len(search.children) = 2
  /\ search.children[1].text = <<"Hi">>
  /\ search.children[2].text = <<"Hi">>
  /\ search.children[1].id # search.children[2].id
  /\ chatInsts[1].currentMessageId = search.children[2].id

\* ---------------------------------------------------------------------------
\* Properties of the connections an instance holds (SpecReconnect)
\* ---------------------------------------------------------------------------
\* The EventSources of an instance that are not closed.
Live(inst) == {k \in DOMAIN inst.conns : inst.conns[k].state # "closed"}

\* C19: a speech or search instance never has more than one EventSource that
\* is not closed, whatever the order of the initial timer, the error events,
\* the reconnect timers and the toggleMode calls.
C19_OneLiveConnection ==
  \A c \in DOMAIN chatInsts : Cardinality(Live(chatInsts[c])) <= 1

\* C20: toggleMode flips isAudioMode, closes the EventSource the instance
\* refers to and leaves it referring to a new one, connecting with the new
\* mode, the other EventSources staying as they are; and in every state the
\* EventSource the instance refers to was created with is_audio equal to
\* isAudioMode.
C20_TrackedConnectionHasMode ==
  /\ [](\A c \in DOMAIN chatInsts :
          (chatInsts[c].tool = "speech_to_instructions" /\ EventSourceOf(chatInsts[c]) # 0) =>
            chatInsts[c].conns[EventSourceOf(chatInsts[c])].isAudio = chatInsts[c].isAudioMode)
  /\ [][\A c \in DOMAIN chatInsts :
          ToggleMode(c) =>
            LET old == chatInsts[c].conns
                new == chatInsts'[c].conns
            IN /\ chatInsts'[c].isAudioMode = ~chatInsts[c].isAudioMode
               /\ new[Len(new)] = [state |-> "connecting",
                                   isAudio |-> chatInsts'[c].isAudioMode]
               /\ SubSeq(new, 1, Len(new) - 1) =
                    IF old = <<>> THEN <<>> ELSE SubSeq(old, 1, Len(old) - 1)]_vars

\* C20 witness: the speech tool was switched to audio mode and its connection
\* was opened, lost and made again by the reconnect timer, in audio mode.
C20_Witness ==
  /\ chatInsts[1].tool = "speech_to_instructions"
  /\ chatInsts[1].isAudioMode
  /\ chatInsts[1].connects = 1
  /\ chatInsts[1].conns[EventSourceOf(chatInsts[1])] = [state |-> "open", isAudio |-> TRUE]

\* ---------------------------------------------------------------------------
\* Properties of the speech tool's audio (SpecClose)
\* ---------------------------------------------------------------------------
\* C21: every PCM chunk handed to audioRecorderHandler is sent to the backend
\* exactly once and in recording order, whatever the interleaving of recorder
\* callbacks, buffer-timer ticks and completions of audio POSTs: the chunks of
\* the POST bodies, read in the order the POSTs were issued, are strictly
\* increasing (none twice, none out of order), and every chunk recorded is
\* either still in audioBuffer or in the body of a POST (none dropped).
C21_ChunksSentOnceInOrder ==
  \A c \in DOMAIN chatInsts :
    LET sent == chatInsts[c].audioSent
        buf == chatInsts[c].audioBuffer
    IN /\ \A p, q \in DOMAIN sent : \A i \in DOMAIN sent[p] : \A j \in DOMAIN sent[q] :
            (p < q \/ (p = q /\ i < j)) => sent[p][i] < sent[q][j]
       /\ \A n \in 1..chatInsts[c].recorded :
            \/ \E i \in DOMAIN buf : buf[i] = n
            \/ \E p \in DOMAIN sent : \E i \in DOMAIN sent[p] : sent[p][i] = n

\* C22: stopAudioRecording clears the buffer timer (bufferTimer is null after
\* it), submits the audio still buffered (a POST whose body is audioBuffer, if
\* it is not empty), stops the microphone's tracks and shows the start button
\* again; and while bufferTimer is null no audio POST is issued and the timer
\* stays null, until audioRecorderHandler is called again or
\* stopAudioRecording itself submits the buffer.
C22_StopAudioRecording ==
  [][\A c \in DOMAIN chatInsts :
       LET old == chatInsts[c]
           new == chatInsts'[c]
           stops == old.mic = "live" /\ new.mic = "stopped"
       IN /\ stops =>
               /\ new.bufferTimer = 0
               /\ new.audioSent = IF old.audioBuffer # <<>>
                                    THEN Append(old.audioSent, old.audioBuffer)
                                    ELSE old.audioSent
               /\ speech'.startBtn /\ ~speech'.stopBtn
          /\ (~stops /\ old.bufferTimer = 0 /\ new.recorded = old.recorded) =>
               /\ new.audioSent = old.audioSent
               /\ new.bufferTimer = 0]_vars

\* Recording was stopped while a chunk was buffered: the chunk is in a POST,
\* the timer is cleared and the start button is back.
C22_Witness ==
  \E c \in DOMAIN chatInsts :
    /\ chatInsts[c].mic = "stopped"
    /\ chatInsts[c].bufferTimer = 0
    /\ chatInsts[c].audioSends > 0
    /\ chatInsts[c].audioSent # <<>>
    /\ speech.startBtn /\ ~speech.stopBtn

\* ---------------------------------------------------------------------------
\* Properties of the floating text-simplification tool (SpecSelect)
\* ---------------------------------------------------------------------------
\* C23: the simplified text returned for a request replaces the page element
\* whose text was sent in that request and no other: when a request of a
\* text-simplification instance settles and the page changes, the element that
\* left the page is the element of that request, whatever the user did while
\* the request was in flight.
C23_ReplacesRequestedElement ==
  [][\A i \in DOMAIN selInsts : \A k \in DOMAIN selInsts[i].reqs :
       (/\ selInsts[i].tool = "text_simplification"
        /\ i \in DOMAIN selInsts'
        /\ selInsts'[i].reqs = RemoveAt(selInsts[i].reqs, k)
        /\ page' # page)
       => page \ page' = {selInsts[i].reqs[k]}]_vars

\* C24: the status 'Text replaced!' is shown only when an element of the page
\* was replaced: when a request of a text-simplification instance settles and
\* leaves 'Text replaced!' in #simplify-status, the page has changed in that
\* step, also when the selection was cleared while the request was in flight.
C24_TextReplacedMeansReplaced ==
  [][\A i \in DOMAIN selInsts :
       (/\ selInsts[i].tool = "text_simplification"
        /\ i \in DOMAIN selInsts'
        /\ Len(selInsts'[i].reqs) < Len(selInsts[i].reqs)
        /\ StatusTarget # 0
        /\ selInsts'[StatusTarget].resText = <<"Text replaced!">>)
       => page' # page]_vars

\* ---------------------------------------------------------------------------
\* Properties of the speech tool's text commands (SpecChat)
\* ---------------------------------------------------------------------------
\* The sendTextCommand calls of an instance that wait at one of `pcs`.
CommandsAt(inst, pcs) ==
  Cardinality({j \in DOMAIN inst.posts :
                 inst.posts[j].fn = "sendTextCommand" /\ inst.posts[j].pc \in pcs})

\* C25: for every text command of the speech tool the scan results are POSTed
\* first, the POST of the command is issued only after that POST has settled
\* and a wait of 500 ms is over, and a failed POST of the scan results does not
\* keep the command from being sent: a sendTextCommand starts at the scan POST,
\* leaves it only for the 500 ms wait and leaves the wait only for the command
\* POST, and every command sent by the user is at the scan POST, in the wait,
\* or has had its POST issued.
C25_ScanSettlesBeforeCommand ==
  /\ [][\A c \in DOMAIN chatInsts :
          LET old == chatInsts[c].posts
              new == chatInsts'[c].posts
          IN /\ Len(new) = Len(old) =>
                  \A j \in DOMAIN old :
                    /\ (new[j].pc = "wait" /\ old[j].pc # "wait") =>
                         old[j].pc = "scan" /\ new[j].delay = CommandDelay
                    /\ (new[j].pc = "command" /\ old[j].pc # "command") =>
                         old[j].pc = "wait" /\ old[j].delay = CommandDelay
             /\ Len(new) = Len(old) + 1 =>
                  (new[Len(new)].fn = "sendTextCommand" => new[Len(new)].pc = "scan")
             /\ chatInsts'[c].commandPosts # chatInsts[c].commandPosts =>
                  CommandsAt(chatInsts'[c], {"wait"}) < CommandsAt(chatInsts[c], {"wait"})]_vars
  /\ [](\A c \in DOMAIN chatInsts :
          chatInsts[c].tool = "speech_to_instructions" =>
          chatInsts[c].commands =
            CommandsAt(chatInsts[c], {"scan", "wait"}) + chatInsts[c].commandPosts)

\* The POST of the scan results of a command was rejected, and the POST of the
\* command has been issued.
C25_Witness ==
  \E c \in DOMAIN chatInsts :
    /\ SystemLine(<<"Error sending scan results: ", "msg">>, "error") \in speech.lines
    /\ chatInsts[c].commandPosts > 0
    /\ CommandsAt(chatInsts[c], {"command"}) > 0

\* ===========================================================================
\* HOST PAGE: handleButtonAction as a function of the document
\* ===========================================================================
\* An element id or a text is a sequence of pieces, "button-save" being
\* <<"button", "-", "save">>; the texts have no white space at their ends, so
\* trim() leaves them as they are.
LowerPiece(p) ==
  CASE p = "Save" -> "save" [] p = "Click" -> "click" [] p = "Go" -> "go" [] OTHER -> p
ToLowerCase(s) == [i \in DOMAIN s |-> LowerPiece(s[i])]
Includes(s, sub) == \E i \in 0..(Len(s) - Len(sub)) : SubSeq(s, i + 1, i + Len(sub)) = sub
StartsWith(s, pre) == Len(s) >= Len(pre) /\ SubSeq(s, 1, Len(pre)) = pre

\* s.replace(a, b) for a string a: the first occurrence only.
ReplaceFirst(s, a, b) ==
  LET at == {i \in 0..(Len(s) - Len(a)) : SubSeq(s, i + 1, i + Len(a)) = a} IN
  IF at = {} THEN s
  ELSE LET i == CHOOSE i \in at : \A j \in at : i <= j
       IN SubSeq(s, 1, i) \o b \o SubSeq(s, i + Len(a) + 1, Len(s))

\* The elements of the documents: a button or another element, with an id or
\* none, a text or none, and an onclick handler or none.
ElementIds == {<<>>, <<"buy">>, <<"7", "up">>, <<"save">>}
ElementTexts == {<<>>, <<"Save">>, <<"Click", " ", "me">>, <<"Go">>}
Elements ==
  [tag : {"button", "div"}, id : ElementIds, text : ElementTexts, onclick : BOOLEAN]
Documents == UNION {[1..n -> Elements] : n \in 0..MaxDoc}

\* data.elementId of the actions the agent sends; <<>> is none.
ActionElementIds == {<<>>, <<"buy">>, <<"7", "up">>, <<"button", "-", "save">>}

\* The first of the elements S of a document, in document order; 0 = null.
First(S) == IF S = {} THEN 0 ELSE CHOOSE i \in S : \A j \in S : i <= j

\* document.querySelector(`#${elementId}`) throws a SyntaxError when the id
\* starts with a digit.
HashSelectorThrows(elementId) == elementId[1] \in {"7"}

\* targetDescription of handleButtonAction.
TargetDescription(elementId) ==
  IF elementId # <<>> /\ StartsWith(elementId, <<"button", "-">>)
    THEN ToLowerCase(ReplaceFirst(ReplaceFirst(elementId, <<"button", "-">>, <<>>),
                                  <<"-">>, <<" ">>))
    ELSE <<>>

\* The generic patterns of handleButtonAction, for the text and for the id.
GenericTextPatterns ==
  {<<"click", " ", "me">>, <<"click">>, <<"test">>, <<"button">>, <<"submit">>,
   <<"cancel">>, <<"login">>, <<"save">>, <<"delete">>, <<"welcome">>, <<"success">>}
GenericIdPatterns == GenericTextPatterns \ {<<"click", " ", "me">>}
MatchesGeneric(b) ==
  \/ \E k \in GenericTextPatterns : Includes(ToLowerCase(b.text), k)
  \/ \E k \in GenericIdPatterns : Includes(ToLowerCase(b.id), k)
  \/ b.onclick

\* handleButtonAction(data) on document d: whether it threw, the element it
\* clicked (0 = none) and the line it left in the chat.
ButtonAction(d, elementId) ==
  IF elementId # <<>> /\ HashSelectorThrows(elementId)
    THEN [fn |-> "handleButtonAction", elementId |-> elementId,
          threw |-> TRUE, clicked |-> 0, said |-> ""]
  ELSE
    LET desc == TargetDescription(elementId)
        buttons == {i \in DOMAIN d : d[i].tag = "button"}
        byId == IF elementId # <<>>
                  THEN First({i \in DOMAIN d : d[i].id = elementId}) ELSE 0
        byDesc == IF byId = 0 /\ desc # <<>>
                    THEN First({i \in buttons :
                                  \/ Includes(ToLowerCase(d[i].text), desc)
                                  \/ Includes(ToLowerCase(d[i].id), desc)})
                    ELSE 0
        byPattern == IF byId = 0 /\ byDesc = 0
                       THEN First({i \in buttons : MatchesGeneric(d[i])}) ELSE 0
        element == IF byId # 0 THEN byId
                   ELSE IF byDesc # 0 THEN byDesc
                   ELSE IF byPattern # 0 THEN byPattern
                   ELSE First(buttons)
    IN [fn |-> "handleButtonAction", elementId |-> elementId,
        threw |-> FALSE, clicked |-> element,
        said |-> IF element # 0 THEN "I clicked the button." ELSE "No button found on webpage"]

\* A click action with elementId is handled on the document.
HandleButtonActionCall(elementId) ==
  /\ ret' = ButtonAction(doc, elementId)
  /\ UNCHANGED <<doc, popupVars, mgrVars, selVars, sseVars, msgVars>>

\* Any document of up to MaxDoc elements; click actions are handled on it.
InitButton ==
  /\ ParkedPopup /\ MgrInit /\ SelInit /\ SseInit /\ MsgInit
  /\ doc \in Documents
  /\ ret = NoCall

NextButton == \E elementId \in ActionElementIds : HandleButtonActionCall(elementId)

SpecButton == InitButton /\ [][NextButton]_vars

\* ---------------------------------------------------------------------------
\* Properties of handleButtonAction (SpecButton)
\* ---------------------------------------------------------------------------
\* C26: handleButtonAction clicks exactly one element, chosen by fixed
\* priority: the element whose id equals elementId if there is one; otherwise
\* the first button whose text or id contains the description derived from a
\* 'button-' prefixed elementId; otherwise the first button whose text or id
\* contains a generic keyword or that has an onclick handler; otherwise the
\* first button.  It says 'No button found on webpage' and clicks nothing only
\* when no element has that id and the page has no button.
C26_ClicksByPriority ==
  ret.fn = "handleButtonAction" =>
    LET id == ret.elementId
        desc == TargetDescription(id)
        buttons == {i \in DOMAIN doc : doc[i].tag = "button"}
        withId == {i \in DOMAIN doc : id # <<>> /\ doc[i].id = id}
        described == {i \in buttons : desc # <<>> /\
                        (\/ Includes(ToLowerCase(doc[i].text), desc)
                         \/ Includes(ToLowerCase(doc[i].id), desc))}
        generic == {i \in buttons : MatchesGeneric(doc[i])}
        chosen == IF withId # {} THEN First(withId)
                  ELSE IF described # {} THEN First(described)
                  ELSE IF generic # {} THEN First(generic)
                  ELSE First(buttons)
    IN /\ ret.clicked = chosen
       /\ (ret.clicked = 0) = (withId = {} /\ buttons = {})
       /\ (ret.said = "No button found on webpage") = (ret.clicked = 0)

\* ===========================================================================
\* HOST PAGE: scanWebpageElements as a function of the document
\* ===========================================================================
\* uniqueElements.length < 30, slice(0, 30)
ScanLimit == 30

\* The selectors of scanWebpageElements, in the order they are queried.
Selectors ==
  <<"button", "a[href]", "input[type=\"button\"]", "input[type=\"submit\"]",
    "input[type=\"reset\"]", "input[type=\"checkbox\"]", "input[type=\"radio\"]",
    "select", "textarea", "[onclick]", "[role=\"button\"]", "[role=\"link\"]",
    "[role=\"menuitem\"]", "[role=\"tab\"]", "[role=\"option\"]",
    "[tabindex]:not([tabindex=\"-1\"])">>

\* The documents scanned hold buttons and links, with an onclick attribute or
\* without, and no role or tabindex attribute: what each selector matches.
Matches(e, selector) ==
  CASE selector = "button" -> e.tag = "button"
    [] selector = "a[href]" -> e.tag = "a"
    [] selector = "[onclick]" -> e.onclick
    [] OTHER -> FALSE

\* isElementVisible(element): the computed style shows it and it has an
\* offsetParent.
IsElementVisible(e) == ~e.hidden

\* The entries pushed for one selector, in document order: tagName, text, id,
\* and visible, which says that the element's rectangle is inside the viewport;
\* el is the element the entry was made from.
Found(d, selector) ==
  LET all == [i \in DOMAIN d |->
                [tagName |-> d[i].tag, text |-> d[i].text, id |-> d[i].id,
                 visible |-> d[i].inViewport, el |-> i]]
  IN SelectSeq(all, LAMBDA r : /\ Matches(d[r.el], selector)
                               /\ IsElementVisible(d[r.el])
                               /\ ~d[r.el].disabled)

\* selectors.forEach(...): the entries of selector s and of those after it.
RECURSIVE Collect(_, _)
Collect(d, s) ==
  IF s > Len(Selectors) THEN <<>> ELSE Found(d, Selectors[s]) \o Collect(d, s + 1)

\* `${element.tagName}-${element.text}-${element.id}`
Key(r) == <<r.tagName, "-">> \o r.text \o <<"-">> \o r.id

\* One pass of the de-duplication over the entries from the k-th on: the
\* entries with visible = want whose key was not seen are added, the ones
\* that are not visible only while fewer than ScanLimit are held.
RECURSIVE ScanPass(_, _, _, _, _)
ScanPass(elements, k, uniqueElements, seenElements, want) ==
  IF k > Len(elements) THEN [uniqueElements |-> uniqueElements, seenElements |-> seenElements]
  ELSE LET r == elements[k]
           add == /\ r.visible = want
                  /\ Key(r) \notin seenElements
                  /\ want \/ Len(uniqueElements) < ScanLimit
       IN IF add
            THEN ScanPass(elements, k + 1, Append(uniqueElements, r),
                          seenElements \cup {Key(r)}, want)
            ELSE ScanPass(elements, k + 1, uniqueElements, seenElements, want)

\* The mutant of the limit: every unique element is returned.
LimitedElements_All(uniqueElements) == uniqueElements

\* uniqueElements.slice(0, 30)
LimitedElements(uniqueElements) ==
  SubSeq(uniqueElements, 1,
         IF Len(uniqueElements) < ScanLimit THEN Len(uniqueElements) ELSE ScanLimit)

\* scanWebpageElements() on document d.
ScanWebpageElements(d) ==
  LET elements == Collect(d, 1)
      first == ScanPass(elements, 1, <<>>, {}, TRUE)
      second == ScanPass(elements, 1, first.uniqueElements, first.seenElements, FALSE)
  IN [fn |-> "scanWebpageElements",
      elements |-> LimitedElements(second.uniqueElements),
      totalFound |-> Len(elements)]

\* The page is scanned.
ScanCall ==
  /\ ret' = ScanWebpageElements(doc)
  /\ UNCHANGED <<doc, popupVars, mgrVars, selVars, sseVars, msgVars>>

\* A run of n buttons inside the viewport, each with an id of its own.
ButtonRun(n) ==
  [k \in 1..n |->
     [tag |-> "button", text |-> <<"Item">>, id |-> <<"b", ToString(k)>>,
      onclick |-> FALSE, hidden |-> FALSE, disabled |-> FALSE, inViewport |-> TRUE]]

\* The elements that follow the run: a button inside the viewport, one with
\* an onclick attribute, one outside the viewport, a hidden one, a disabled
\* one, or a link; each with the id of the run's first button (twin) or with an
\* id of its own.
ExtraKinds ==
  LET button == [tag |-> "button", onclick |-> FALSE, hidden |-> FALSE,
                 disabled |-> FALSE, inViewport |-> TRUE, twin |-> FALSE]
  IN {[kind EXCEPT !.twin = t] :
        kind \in {button,
                  [button EXCEPT !.onclick = TRUE],
                  [button EXCEPT !.inViewport = FALSE],
                  [button EXCEPT !.hidden = TRUE],
                  [button EXCEPT !.disabled = TRUE],
                  [button EXCEPT !.tag = "a"]},
        t \in BOOLEAN}

\* The documents scanned: no run, or a run that holds one button less than
\* ScanLimit or ScanLimit of them, and up to MaxExtra elements after it.
ScanDocuments ==
  {ButtonRun(n) \o [p \in DOMAIN extras |->
                      [tag |-> extras[p].tag, text |-> <<"Item">>,
                       id |-> IF extras[p].twin THEN <<"b", "1">> ELSE <<"x", ToString(p)>>,
                       onclick |-> extras[p].onclick, hidden |-> extras[p].hidden,
                       disabled |-> extras[p].disabled,
                       inViewport |-> extras[p].inViewport]] :
     n \in {0, ScanLimit - 1, ScanLimit},
     extras \in UNION {[1..m -> ExtraKinds] : m \in 0..MaxExtra}}

InitScan ==
  /\ ParkedPopup /\ MgrInit /\ SelInit /\ SseInit /\ MsgInit
  /\ doc \in ScanDocuments
  /\ ret = NoCall

NextScan == ScanCall

SpecScan == InitScan /\ [][NextScan]_vars

\* ---------------------------------------------------------------------------
\* Properties of scanWebpageElements (SpecScan)
\* ---------------------------------------------------------------------------
\* C27: scanWebpageElements returns at most 30 elements, no two of them with
\* the same (tag name, text, id); every element flagged visible precedes every
\* element flagged not visible; a not-visible element is included only when
\* fewer than 30 visible ones were collected; no hidden or disabled element is
\* included; and totalFound is the number of matches (selector, shown and
\* enabled element) before de-duplication.
C27_ScanReturnsAtMostThirty ==
  ret.fn = "scanWebpageElements" =>
    LET els == ret.elements
        matches == {<<s, i>> \in (DOMAIN Selectors) \X (DOMAIN doc) :
                      /\ Matches(doc[i], Selectors[s])
                      /\ ~doc[i].hidden /\ ~doc[i].disabled}
    IN /\ Len(els) <= 30
       /\ \A i, j \in DOMAIN els :
            i # j => <<els[i].tagName, els[i].text, els[i].id>>
                       # <<els[j].tagName, els[j].text, els[j].id>>
       /\ \A i, j \in DOMAIN els : (els[i].visible /\ ~els[j].visible) => i < j
       /\ (\E j \in DOMAIN els : ~els[j].visible) =>
            Cardinality({i \in DOMAIN els : els[i].visible}) < 30
       /\ \A i \in DOMAIN els : ~doc[els[i].el].hidden /\ ~doc[els[i].el].disabled
       /\ ret.totalFound = Cardinality(matches)

\* A page with more than 30 matches, among them a duplicate, and with a hidden
\* or a disabled element and an element outside the viewport was scanned: 30
\* elements are returned.
C27_Witness ==
  /\ ret.fn = "scanWebpageElements"
  /\ Len(ret.elements) = 30
  /\ ret.totalFound > 30
  /\ \E i \in DOMAIN doc : doc[i].hidden \/ doc[i].disabled

====
